---- MODULE Spec2Model ----
(***************************************************************************)
(* Reference-string parsing engine of anki-bible-stats-server:             *)
(*   ankistats/src/verse_parser.rs      (verse counter)                    *)
(*   ankistats/src/book_name_parser.rs  (book name extractor)              *)
(*                                                                         *)
(* A Rust &str / String is modelled as a sequence of Unicode code points.  *)
(* An i64 is modelled as a sign and a magnitude; the magnitude is a        *)
(* little-endian triple of limbs in base 10^9, because the values of       *)
(* interest (2^63 - 1 and its neighbours) exceed the 32-bit integers of    *)
(* TLC.                                                                    *)
(*                                                                         *)
(* State:                                                                  *)
(*   reference, called, result, inner   one call of an entry point: its    *)
(*       argument, which entry point was called, what it returned and what *)
(*       the try_ function inside a wrapper returned                       *)
(*   threads   calls in progress on several threads, with their locals     *)
(*   cards     the rows of cards JOIN notes (ankistats/src/db.rs)          *)
(*   stats     what get_all_books_stats returned                           *)
(*   now       the clock that Local::now() reads, in whole hours           *)
(*   revlog, page_stat_data   the review log of Anki and the reading       *)
(*       sessions of KOReader, as the queries see them after their joins   *)
(*   days      what the last call of a dated statistics function returned  *)
(***************************************************************************)
EXTENDS Integers, Sequences, FiniteSets, TLC

VARIABLES reference, called, result, inner, threads, cards, stats,
          now, revlog, page_stat_data, days

vars == <<reference, called, result, inner, threads, cards, stats,
          now, revlog, page_stat_data, days>>

----------------------------------------------------------------------------
(* Characters (code points) named by the source.                           *)

SPACE == 32
COLON == 58
HYPHEN == 45
ZWSP == 8203
BOM == 65279
LRE == 8234
RLE == 8235
PDF == 8236
LRO == 8237
RLO == 8238

(* char::is_control: general category Cc.                                  *)
is_control(c) == c \in 0..31 \/ c \in 127..159

(* char::is_whitespace: the Unicode White_Space property (used by trim).   *)
is_whitespace(c) ==
    \/ c \in 9..13
    \/ c \in {32, 133, 160, 5760, 8232, 8233, 8239, 8287, 12288}
    \/ c \in 8192..8202

is_ascii_digit(c) == c \in 48..57

to_ascii_lowercase(c) == IF c \in 65..90 THEN c + 32 ELSE c

eq_ignore_ascii_case(a, b) ==
    /\ Len(a) = Len(b)
    /\ \A i \in 1..Len(a) : to_ascii_lowercase(a[i]) = to_ascii_lowercase(b[i])

----------------------------------------------------------------------------
(* String helpers.  Positions are 1-based; 0 stands for None.              *)

rfind(s, ch) ==
    IF \E i \in 1..Len(s) : s[i] = ch
    THEN CHOOSE i \in 1..Len(s) : s[i] = ch /\ \A j \in (i+1)..Len(s) : s[j] # ch
    ELSE 0

find(s, ch) ==
    IF \E i \in 1..Len(s) : s[i] = ch
    THEN CHOOSE i \in 1..Len(s) : s[i] = ch /\ \A j \in 1..(i-1) : s[j] # ch
    ELSE 0

(* &s[..pos] and &s[pos + 1..] for a 1-based position pos.                 *)
Before(s, pos) == SubSeq(s, 1, pos - 1)
After(s, pos) == SubSeq(s, pos + 1, Len(s))

trim_start(s) ==
    IF \A i \in 1..Len(s) : is_whitespace(s[i])
    THEN << >>
    ELSE LET f == CHOOSE i \in 1..Len(s) :
                      ~is_whitespace(s[i]) /\ \A j \in 1..(i-1) : is_whitespace(s[j])
         IN SubSeq(s, f, Len(s))

trim_end(s) ==
    IF \A i \in 1..Len(s) : is_whitespace(s[i])
    THEN << >>
    ELSE LET l == CHOOSE i \in 1..Len(s) :
                      ~is_whitespace(s[i]) /\ \A j \in (i+1)..Len(s) : is_whitespace(s[j])
         IN SubSeq(s, 1, l)

trim(s) == trim_end(trim_start(s))

(* s.chars().take_while(|c| c.is_ascii_digit()): length of the digit run.  *)
DigitRunLen(s) ==
    IF \A i \in 1..Len(s) : is_ascii_digit(s[i])
    THEN Len(s)
    ELSE (CHOOSE i \in 1..Len(s) :
              ~is_ascii_digit(s[i]) /\ \A j \in 1..(i-1) : is_ascii_digit(s[j])) - 1

take_while_ascii_digit(s) == SubSeq(s, 1, DigitRunLen(s))

----------------------------------------------------------------------------
(* 64-bit integers.                                                        *)

LimbBase == 10^9

(* Magnitudes <<lo, mid, hi>> = lo + mid * 10^9 + hi * 10^18.              *)
I64Max == <<854775807, 223372036, 9>>       \* 2^63 - 1
TwoPow64 == <<709551616, 446744073, 18>>    \* 2^64
MagZero == <<0, 0, 0>>
MagOne == <<1, 0, 0>>

MagLE(a, b) ==
    \/ a[3] < b[3]
    \/ a[3] = b[3] /\ a[2] < b[2]
    \/ a[3] = b[3] /\ a[2] = b[2] /\ a[1] <= b[1]

MagAdd(a, b) ==
    LET s1 == a[1] + b[1]
        c1 == IF s1 >= LimbBase THEN 1 ELSE 0
        s2 == a[2] + b[2] + c1
        c2 == IF s2 >= LimbBase THEN 1 ELSE 0
    IN <<s1 - c1 * LimbBase, s2 - c2 * LimbBase, a[3] + b[3] + c2>>

(* a - b for b <= a.                                                       *)
MagSub(a, b) ==
    LET d1 == a[1] - b[1]
        w1 == IF d1 < 0 THEN 1 ELSE 0
        d2 == a[2] - b[2] - w1
        w2 == IF d2 < 0 THEN 1 ELSE 0
    IN <<d1 + w1 * LimbBase, d2 + w2 * LimbBase, a[3] - b[3] - w2>>

I64(neg, mag) == [neg |-> neg, mag |-> mag]

I64One == I64(FALSE, MagOne)

(* Mutant of I64GE: the comparison turned around (s >= e).                 *)
I64GE_swapped(e, s) ==
    CASE e.neg /\ ~s.neg -> TRUE
      [] ~e.neg /\ s.neg -> e.mag = MagZero /\ s.mag = MagZero
      [] ~e.neg /\ ~s.neg -> MagLE(e.mag, s.mag)
      [] OTHER -> MagLE(s.mag, e.mag)

(* e >= s on i64 values.                                                   *)
I64GE(e, s) ==
    CASE e.neg /\ ~s.neg -> e.mag = MagZero /\ s.mag = MagZero
      [] ~e.neg /\ s.neg -> TRUE
      [] ~e.neg /\ ~s.neg -> MagLE(s.mag, e.mag)
      [] OTHER -> MagLE(e.mag, s.mag)

(* The value of up to nine decimal digits.                                 *)
RECURSIVE DecVal(_)
DecVal(d) ==
    IF d = << >> THEN 0
    ELSE DecVal(SubSeq(d, 1, Len(d) - 1)) * 10 + (d[Len(d)] - 48)

StripLeadingZeros(d) ==
    IF \A i \in 1..Len(d) : d[i] = 48
    THEN << >>
    ELSE LET f == CHOOSE i \in 1..Len(d) : d[i] # 48 /\ \A j \in 1..(i-1) : d[j] = 48
         IN SubSeq(d, f, Len(d))

(* The magnitude written by at most 27 significant digits.                 *)
DigitsToMag(d) ==
    LET n == Len(d)
        Limb(k) == DecVal(SubSeq(d, IF n - 9 * k + 1 < 1 THEN 1 ELSE n - 9 * k + 1,
                                 n - 9 * (k - 1)))
    IN <<Limb(1), Limb(2), Limb(3)>>

None == [tag |-> "None"]
Some(v) == [tag |-> "Some", val |-> v]

(* str::parse::<i64>().ok() on a string of ASCII digits: None when the     *)
(* string is empty or its value exceeds i64::MAX.                          *)
parse_i64(digits) ==
    LET sig == StripLeadingZeros(digits) IN
    IF digits = << >> THEN None
    ELSE IF Len(sig) > 19 THEN None
    ELSE IF ~MagLE(DigitsToMag(sig), I64Max) THEN None
    ELSE Some(I64(FALSE, DigitsToMag(sig)))

----------------------------------------------------------------------------
(* Results.  Err carries the kind of message and the two texts format!     *)
(* puts in it, Value is a plain (non-Result) return value, Panic is an     *)
(* unwinding call.                                                         *)

Ok(v) == [tag |-> "Ok", val |-> v]
Err(kind, part, ref) == [tag |-> "Err", kind |-> kind, part |-> part, reference |-> ref]
Value(v) == [tag |-> "Value", val |-> v]
Panic == [tag |-> "Panic"]
NoResult == [tag |-> "NoResult"]

----------------------------------------------------------------------------
(* ankistats/src/verse_parser.rs                                           *)

SINGLE_CHAPTER_BOOKS ==
    << <<79, 98, 97, 100, 105, 97, 104>>,           \* "Obadiah"
       <<80, 104, 105, 108, 101, 109, 111, 110>>,   \* "Philemon"
       <<50, 32, 74, 111, 104, 110>>,               \* "2 John"
       <<51, 32, 74, 111, 104, 110>>,               \* "3 John"
       <<74, 117, 100, 101>> >>                     \* "Jude"

(* Mutant of is_single_chapter_book: the comparison is case-sensitive.     *)
is_single_chapter_book_exact(book_name) ==
    \E i \in 1..Len(SINGLE_CHAPTER_BOOKS) : book_name = SINGLE_CHAPTER_BOOKS[i]

is_single_chapter_book(book_name) ==
    \E i \in 1..Len(SINGLE_CHAPTER_BOOKS) :
        eq_ignore_ascii_case(book_name, SINGLE_CHAPTER_BOOKS[i])

(* Mutant of verse_filter: U+FEFF is kept.                                 *)
verse_filter_keeps_bom(c) ==
    /\ ~is_control(c)
    /\ c # ZWSP
    /\ c # LRE
    /\ c # RLE
    /\ c # PDF
    /\ c # LRO
    /\ c # RLO

(* The closure given to filter: the characters that are kept.              *)
verse_filter(c) ==
    /\ ~is_control(c)
    /\ c # ZWSP
    /\ c # BOM
    /\ c # LRE
    /\ c # RLE
    /\ c # PDF
    /\ c # LRO
    /\ c # RLO

clean_reference(raw) == SelectSeq(raw, verse_filter)

(* Mutant of parse_verse_number: the whole text must be digits.            *)
parse_verse_number_whole(s) ==
    IF DigitRunLen(s) = Len(s) THEN parse_i64(s) ELSE None

(* Mutant of parse_verse_number: exactly one trailing ASCII letter is      *)
(* dropped, the rest must be digits.                                       *)
parse_verse_number_one_letter(s) ==
    LET body == IF s # << >> /\ to_ascii_lowercase(s[Len(s)]) \in 97..122
                THEN SubSeq(s, 1, Len(s) - 1)
                ELSE s
    IN IF DigitRunLen(body) = Len(body) THEN parse_i64(body) ELSE None

(* Lines 111-116.                                                          *)
parse_verse_number(s) == parse_i64(take_while_ascii_digit(s))

(* e - s + 1 for 0 <= s <= e: the subtraction cannot overflow, the         *)
(* addition does when e - s = i64::MAX; it then panics in a build with     *)
(* overflow checks and wraps around otherwise.                             *)
range_count(s, e, overflow_checks) ==
    LET m == MagAdd(MagSub(e.mag, s.mag), MagOne) IN
    IF MagLE(m, I64Max) THEN Ok(I64(FALSE, m))
    ELSE IF overflow_checks THEN Panic
    ELSE Ok(I64(TRUE, MagSub(TwoPow64, m)))

(* Mutant of find_verse_part: any colon-less citation with a space is      *)
(* taken for a single-chapter book.                                        *)
find_verse_part_any_book(cleaned) ==
    LET pos == rfind(cleaned, COLON)
        space_pos == rfind(cleaned, SPACE)
    IN IF pos # 0 THEN Ok(After(cleaned, pos))
       ELSE IF space_pos # 0
            THEN Ok(After(cleaned, space_pos))
            ELSE Err("NoColonOrSpace", << >>, cleaned)

(* Mutant of find_verse_part: the verse part starts after the first colon. *)
find_verse_part_first_colon(cleaned) ==
    LET pos == find(cleaned, COLON)
        space_pos == rfind(cleaned, SPACE)
    IN IF pos # 0 THEN Ok(After(cleaned, pos))
       ELSE IF space_pos # 0
            THEN IF is_single_chapter_book(Before(cleaned, space_pos))
                 THEN Ok(After(cleaned, space_pos))
                 ELSE Err("NoColonFound", << >>, cleaned)
            ELSE Err("NoColonOrSpace", << >>, cleaned)

(* Mutant of find_verse_part: a citation with neither colon nor space is   *)
(* taken whole for the verse part.                                         *)
find_verse_part_bare_locator(cleaned) ==
    LET pos == rfind(cleaned, COLON)
        space_pos == rfind(cleaned, SPACE)
    IN IF pos # 0 THEN Ok(After(cleaned, pos))
       ELSE IF space_pos # 0
            THEN IF is_single_chapter_book(Before(cleaned, space_pos))
                 THEN Ok(After(cleaned, space_pos))
                 ELSE Err("NoColonFound", << >>, cleaned)
            ELSE Ok(cleaned)

(* Lines 36-58: the text after the last colon, or after the last space of  *)
(* a single-chapter book.                                                  *)
find_verse_part(cleaned) ==
    LET pos == rfind(cleaned, COLON)
        space_pos == rfind(cleaned, SPACE)
    IN IF pos # 0 THEN Ok(After(cleaned, pos))
       ELSE IF space_pos # 0
            THEN IF is_single_chapter_book(Before(cleaned, space_pos))
                 THEN Ok(After(cleaned, space_pos))
                 ELSE Err("NoColonFound", << >>, cleaned)
            ELSE Err("NoColonOrSpace", << >>, cleaned)

(* Mutant of count_verse_part: the range is split at its last hyphen.      *)
count_verse_part_last_hyphen(untrimmed, cleaned, overflow_checks) ==
    LET verse_part == trim(untrimmed)
        hyphen_pos == rfind(verse_part, HYPHEN)
    IN IF hyphen_pos # 0
       THEN LET start_str == trim(Before(verse_part, hyphen_pos))
                end_str == trim(After(verse_part, hyphen_pos))
                start == parse_verse_number(start_str)
                end == parse_verse_number(end_str)
            IN IF start.tag = "Some" /\ end.tag = "Some" /\ I64GE(end.val, start.val)
               THEN range_count(start.val, end.val, overflow_checks)
               ELSE Err("InvalidRange", verse_part, cleaned)
       ELSE IF parse_verse_number(verse_part).tag = "Some"
            THEN Ok(I64One)
            ELSE Err("InvalidVerse", verse_part, cleaned)

(* Lines 61-87: a range or a single verse.                                 *)
count_verse_part(untrimmed, cleaned, overflow_checks) ==
    LET verse_part == trim(untrimmed)
        hyphen_pos == find(verse_part, HYPHEN)
    IN IF hyphen_pos # 0
       THEN LET start_str == trim(Before(verse_part, hyphen_pos))
                end_str == trim(After(verse_part, hyphen_pos))
                start == parse_verse_number(start_str)
                end == parse_verse_number(end_str)
            IN IF start.tag = "Some" /\ end.tag = "Some" /\ I64GE(end.val, start.val)
               THEN range_count(start.val, end.val, overflow_checks)
               ELSE Err("InvalidRange", verse_part, cleaned)
       ELSE IF parse_verse_number(verse_part).tag = "Some"
            THEN Ok(I64One)
            ELSE Err("InvalidVerse", verse_part, cleaned)

try_count_verses_in_reference(raw, overflow_checks) ==
    LET cleaned == clean_reference(raw)
        found == find_verse_part(cleaned)
    IN IF found.tag = "Ok"
       THEN count_verse_part(found.val, cleaned, overflow_checks)
       ELSE found

(* Mutant of count_or_one: the fallback is 0.                              *)
count_or_zero(r) ==
    CASE r.tag = "Ok" -> Value(r.val)
      [] r.tag = "Err" -> Value(I64(FALSE, MagZero))
      [] OTHER -> r

(* Lines 101-107: what the wrapper makes of the inner call's result.       *)
count_or_one(r) ==
    CASE r.tag = "Ok" -> Value(r.val)
      [] r.tag = "Err" -> Value(I64One)
      [] OTHER -> r

count_verses_in_reference(raw, overflow_checks) ==
    count_or_one(try_count_verses_in_reference(raw, overflow_checks))

----------------------------------------------------------------------------
(* ankistats/src/book_name_parser.rs                                       *)

PSALM == <<80, 115, 97, 108, 109>>          \* "Psalm"
PSALMS == <<80, 115, 97, 108, 109, 115>>    \* "Psalms"

(* Mutant of normalize_book_name: no alias.                                *)
normalize_book_name_identity(book_name) == book_name

(* Mutant of normalize_book_name: the alias is matched case-sensitively.   *)
normalize_book_name_exact_case(book_name) ==
    IF book_name = PSALM THEN PSALMS ELSE book_name

normalize_book_name(book_name) ==
    IF eq_ignore_ascii_case(book_name, PSALM) THEN PSALMS ELSE book_name

(* Mutant of book_filter: U+202E is kept.                                  *)
book_filter_keeps_rlo(c) ==
    /\ ~is_control(c)
    /\ c # ZWSP
    /\ c # BOM
    /\ c # LRE
    /\ c # RLE
    /\ c # PDF
    /\ c # LRO

(* Lines 23-35: the closure given to filter.                               *)
book_filter(c) ==
    /\ ~is_control(c)
    /\ c # ZWSP
    /\ c # BOM
    /\ c # LRE
    /\ c # RLE
    /\ c # PDF
    /\ c # LRO
    /\ c # RLO

(* Mutant of try_parse_book_name: the split is at the first space.         *)
try_parse_book_name_first_space(raw) ==
    LET cleaned == SelectSeq(raw, book_filter)
        pos == find(cleaned, SPACE)
    IN IF pos # 0
       THEN LET book_name == trim(Before(cleaned, pos))
            IN IF book_name = << >>
               THEN Err("EmptyBookName", << >>, cleaned)
               ELSE Ok(normalize_book_name(book_name))
       ELSE Err("NoSpaceFound", << >>, cleaned)

(* Mutant of try_parse_book_name: an empty book name is not rejected.      *)
try_parse_book_name_allow_empty(raw) ==
    LET cleaned == SelectSeq(raw, book_filter)
        pos == rfind(cleaned, SPACE)
    IN IF pos # 0
       THEN Ok(normalize_book_name(trim(Before(cleaned, pos))))
       ELSE Err("NoSpaceFound", << >>, cleaned)

(* Lines 38-51: the text before the last space of the cleaned citation.    *)
split_book_name(cleaned) ==
    LET pos == rfind(cleaned, SPACE)
    IN IF pos # 0
       THEN LET book_name == trim(Before(cleaned, pos))
            IN IF book_name = << >>
               THEN Err("EmptyBookName", << >>, cleaned)
               ELSE Ok(normalize_book_name(book_name))
       ELSE Err("NoSpaceFound", << >>, cleaned)

(* Lines 21-52.                                                            *)
try_parse_book_name(raw) == split_book_name(SelectSeq(raw, book_filter))

(* Mutant of some_or_none: an error becomes an empty name.                 *)
some_or_empty(r) ==
    CASE r.tag = "Ok" -> Some(r.val)
      [] r.tag = "Err" -> Some(<< >>)
      [] OTHER -> r

(* Lines 65-71: Some(book_name) or None.                                   *)
some_or_none(r) ==
    CASE r.tag = "Ok" -> Some(r.val)
      [] r.tag = "Err" -> None
      [] OTHER -> r

parse_book_name(raw) == some_or_none(try_parse_book_name(raw))

----------------------------------------------------------------------------
(* ankistats/src/db.rs: get_all_books_stats.  cards holds the rows of      *)
(* cards JOIN notes of the deck and note type asked for: the citation      *)
(* (sfld), queue, ivl and ord of each.                                     *)

QUEUE_TYPE_MANUALLY_BURIED == -3
QUEUE_TYPE_SIBLING_BURIED == -2
QUEUE_TYPE_NEW == 0
QUEUE_TYPE_LRN == 1
QUEUE_TYPE_REV == 2
QUEUE_TYPE_DAY_LEARN_RELEARN == 3

TwoPow63 == <<854775808, 223372036, 9>>     \* 2^63

I64Zero == I64(FALSE, MagZero)

(* a + b as sum() adds 64-bit integers: None when the sum overflows.       *)
checked_add(a, b) ==
    IF a.neg = b.neg
    THEN LET m == MagAdd(a.mag, b.mag)
         IN IF (~a.neg /\ MagLE(m, I64Max)) \/ (a.neg /\ MagLE(m, TwoPow63))
            THEN Some(I64(a.neg, m))
            ELSE None
    ELSE IF MagLE(b.mag, a.mag)
         THEN Some(I64(a.neg /\ a.mag # b.mag, MagSub(a.mag, b.mag)))
         ELSE Some(I64(b.neg, MagSub(b.mag, a.mag)))

Categories == { "mature", "young", "unseen", "suspended" }

(* The conditions of the CASE expressions, lines 104-108.                  *)
in_category(card, cat) ==
    LET reviewed == card.queue \in { QUEUE_TYPE_REV, QUEUE_TYPE_SIBLING_BURIED,
                                     QUEUE_TYPE_MANUALLY_BURIED }
    IN CASE cat = "mature" -> reviewed /\ card.ivl >= 21
         [] cat = "young" -> \/ card.queue \in { QUEUE_TYPE_LRN, QUEUE_TYPE_DAY_LEARN_RELEARN }
                             \/ reviewed /\ card.ivl < 21
         [] cat = "unseen" -> card.queue = QUEUE_TYPE_NEW
         [] cat = "suspended" -> card.queue < QUEUE_TYPE_NEW

(* SUM(CASE WHEN .. THEN 1 ELSE 0 END) over the rows of a group.           *)
sum_passages(table, rows, cat) ==
    Cardinality({ k \in 1..Len(rows) : in_category(table[rows[k]], cat) })

Overflow == [tag |-> "Overflow"]

(* SUM(CASE WHEN .. THEN count_verses(sfld) ELSE 0 END) over the rows of a *)
(* group, in the order the rows come: Ok(sum), Overflow when the 64-bit    *)
(* sum overflowed at some row, Panic when count_verses panicked.           *)
RECURSIVE sum_verses(_, _, _, _, _)
sum_verses(table, rows, cat, overflow_checks, acc) ==
    IF rows = << >> THEN acc
    ELSE LET card == table[Head(rows)]
             term == IF in_category(card, cat)
                     THEN count_verses_in_reference(card.sfld, overflow_checks)
                     ELSE Value(I64Zero)
         IN IF term.tag = "Panic" THEN Panic
            ELSE sum_verses(table, Tail(rows), cat, overflow_checks,
                            IF acc.tag = "Overflow" THEN acc
                            ELSE LET s == checked_add(acc.val, term.val)
                                 IN IF s.tag = "Some" THEN Ok(s.val) ELSE Overflow)

BookStats(book, table, rows, mature, young, unseen, suspended) ==
    [ book |-> book,
      mature_passages |-> sum_passages(table, rows, "mature"),
      young_passages |-> sum_passages(table, rows, "young"),
      unseen_passages |-> sum_passages(table, rows, "unseen"),
      suspended_passages |-> sum_passages(table, rows, "suspended"),
      mature_verses |-> mature.val,
      young_verses |-> young.val,
      unseen_verses |-> unseen.val,
      suspended_verses |-> suspended.val ]

(* src/models.rs lines 50-52.                                              *)
total_passages(row) ==
    row.mature_passages + row.young_passages + row.unseen_passages + row.suspended_passages

(* One group of GROUP BY book: its row of the result, or the error of the  *)
(* statement: a panic of count_verses stops the statement at once, an      *)
(* overflowed sum when the group's sums are finalized.                     *)
group_of_sums(book, table, rows, mature, young, unseen, suspended) ==
    IF \E v \in { mature, young, unseen, suspended } : v.tag = "Panic"
    THEN Err("UnwindingPanic", << >>, << >>)
    ELSE IF \E v \in { mature, young, unseen, suspended } : v.tag = "Overflow"
    THEN Err("IntegerOverflow", << >>, << >>)
    ELSE Ok(BookStats(book, table, rows, mature, young, unseen, suspended))

group_stats(book, table, rows, overflow_checks) ==
    group_of_sums(book, table, rows,
                  sum_verses(table, rows, "mature", overflow_checks, Ok(I64Zero)),
                  sum_verses(table, rows, "young", overflow_checks, Ok(I64Zero)),
                  sum_verses(table, rows, "unseen", overflow_checks, Ok(I64Zero)),
                  sum_verses(table, rows, "suspended", overflow_checks, Ok(I64Zero)))

(* The order of the groups: NULL first, then the book names as byte        *)
(* strings (the order of their code points).                               *)
text_less(a, b) ==
    \/ \E i \in 1..Len(a) :
           /\ i <= Len(b)
           /\ a[i] < b[i]
           /\ \A j \in 1..(i - 1) : a[j] = b[j]
    \/ Len(a) < Len(b) /\ \A j \in 1..Len(a) : a[j] = b[j]

key_less(k1, k2) ==
    \/ k1.tag = "None" /\ k2.tag = "Some"
    \/ k1.tag = "Some" /\ k2.tag = "Some" /\ text_less(k1.val, k2.val)

(* Lines 95-149.  scan is the order in which the rows reach the sums.      *)
get_all_books_stats(table, scan, overflow_checks) ==
    LET selected(i) == table[i].ord = 0
        rows == SelectSeq(scan, selected)
        keys == { parse_book_name(table[rows[k]].sfld) : k \in 1..Len(rows) }
        group(key) ==
            LET in_group(i) == parse_book_name(table[i].sfld) = key
            IN group_stats(IF key.tag = "Some" THEN key.val ELSE << >>,
                           table, SelectSeq(rows, in_group), overflow_checks)
        failed == { key \in keys : group(key).tag = "Err" }
    IN IF failed # { }
       THEN group(CHOOSE key \in failed :
                      \A other \in failed : other = key \/ key_less(key, other))
       ELSE Ok([ book \in { key.val : key \in { k \in keys : k.tag = "Some" } }
                 |-> group(Some(book)).val ])

----------------------------------------------------------------------------
(* src/verse_parser.rs: the verse counter of the older crate.  It has no   *)
(* filter, no single-chapter books and no Result: every failure is 1.      *)

(* Mutant of count_verses_in_reference_old: a citation without a colon     *)
(* counts 0.                                                               *)
count_verses_in_reference_old_zero(raw, overflow_checks) ==
    LET pos == rfind(raw, COLON)
    IN IF pos = 0 THEN Value(I64(FALSE, MagZero))
       ELSE count_or_one(count_verse_part(After(raw, pos), raw, overflow_checks))

(* Lines 9-64.  After the colon the code is that of lines 61-87 of the     *)
(* current counter, with 1 where that one returns an error.                *)
count_verses_in_reference_old(raw, overflow_checks) ==
    LET pos == rfind(raw, COLON)
    IN IF pos = 0 THEN Value(I64One)
       ELSE count_or_one(count_verse_part(After(raw, pos), raw, overflow_checks))

----------------------------------------------------------------------------
(* The citations the entry points are applied to: a head (book name and    *)
(* chapter, or nothing) followed by up to MaxTokens tokens.                *)

MaxTokens == 3

I64MaxDigits == <<57,50,50,51,51,55,50,48,51,54,56,53,52,55,55,53,56,48,55>>  \* "9223372036854775807"
I64OverDigits == <<57,50,50,51,51,55,50,48,51,54,56,53,52,55,55,53,56,48,56>> \* "9223372036854775808"

Tokens ==
    { <<48>>, <<49>>,               \* "0" "1"
      I64MaxDigits, I64OverDigits,
      <<45>>, <<97>>,               \* "-" "a"
      <<32>>, <<58>>,               \* " " ":"
      <<8237>>,                     \* U+202D, stripped by the filter
      <<9>>,                        \* tab: a control character
      <<160>> }                     \* U+00A0: white space that is not stripped

Heads ==
    { << >>,
      <<74, 85, 68, 69, 32>>,                            \* "JUDE "
      <<32, 74, 117, 100, 101, 32>>,                     \* " Jude "
      <<50, 32, 74, 111, 104, 110, 32>>,                 \* "2 John "
      <<71, 101, 110, 101, 115, 105, 115, 32>>,          \* "Genesis "
      <<80, 83, 65, 76, 77, 32, 53, 58>> }               \* "PSALM 5:"

RECURSIVE Concats(_)
Concats(n) ==
    IF n = 0 THEN { << >> }
    ELSE LET shorter == Concats(n - 1)
         IN shorter \cup { s \o t : s \in shorter, t \in Tokens }

Inputs == { h \o t : h \in Heads, t \in Concats(MaxTokens) }

----------------------------------------------------------------------------
(* One call of an entry point on the citation.  overflow_checks is the     *)
(* build's choice for integer overflow (panic or wrap).                    *)

(* No dated statistics function is involved.                               *)
NoStatsCall ==
    /\ now = 0
    /\ revlog = {}
    /\ page_stat_data = {}
    /\ days = NoResult

Init ==
    /\ reference \in Inputs
    /\ called = "none"
    /\ result = NoResult
    /\ inner = NoResult
    /\ threads = << >>
    /\ cards = << >>
    /\ stats = NoResult
    /\ NoStatsCall

Call_try_count_verses_in_reference ==
    /\ called = "none"
    /\ \E overflow_checks \in BOOLEAN :
           result' = try_count_verses_in_reference(reference, overflow_checks)
    /\ called' = "try_count_verses_in_reference"
    /\ UNCHANGED <<reference, inner, threads, cards, stats,
                   now, revlog, page_stat_data, days>>

Call_count_verses_in_reference ==
    /\ called = "none"
    /\ \E overflow_checks \in BOOLEAN :
           /\ inner' = try_count_verses_in_reference(reference, overflow_checks)
           /\ result' = count_or_one(inner')
    /\ called' = "count_verses_in_reference"
    /\ UNCHANGED <<reference, threads, cards, stats,
                   now, revlog, page_stat_data, days>>

Call_try_parse_book_name ==
    /\ called = "none"
    /\ result' = try_parse_book_name(reference)
    /\ called' = "try_parse_book_name"
    /\ UNCHANGED <<reference, inner, threads, cards, stats,
                   now, revlog, page_stat_data, days>>

Call_parse_book_name ==
    /\ called = "none"
    /\ inner' = try_parse_book_name(reference)
    /\ result' = some_or_none(inner')
    /\ called' = "parse_book_name"
    /\ UNCHANGED <<reference, threads, cards, stats,
                   now, revlog, page_stat_data, days>>

Next ==
    \/ Call_try_count_verses_in_reference
    \/ Call_count_verses_in_reference
    \/ Call_try_parse_book_name
    \/ Call_parse_book_name

Spec == Init /\ [][Next]_vars

(* One call of an entry point on a citation as a card holds it: a book     *)
(* name, a space and a locator.                                            *)
Books ==
    { << >>,
      <<80, 115, 97, 108, 109>>,                               \* "Psalm"
      <<50, 32, 84, 105, 109, 111, 116, 104, 121>>,            \* "2 Timothy"
      <<74, 85, 68, 69>> }                                     \* "JUDE"

Locators ==
    { << >>,
      <<51>>,                                                  \* "3"
      <<53, 49, 58, 51>>,                                      \* "51:3"
      <<50, 52, 45, 50, 53>>,                                  \* "24-25"
      <<49, 58, 57, 97, 45, 49, 50>>,                          \* "1:9a-12"
      <<51, 58, 50, 45, 49>>,                                  \* "3:2-1"
      <<49, 58, 49, 32, 45, 32, 51>>,                          \* "1:1 - 3"
      <<49, 45, 50, 45, 57>>,                                  \* "1-2-9"
      <<53, 58, 49, 45, 50, 45, 57>>,                          \* "5:1-2-9"
      <<53, 58, 50, 97, 32, 45, 49, 45, 57>> }                 \* "5:2a -1-9"

Citations ==
    { b \o <<SPACE>> \o l : b \in Books, l \in Locators }
    \cup { << >>,
           <<71, 101, 110, 101, 115, 105, 115>>,                \* "Genesis"
           <<80, 115, 97, 108, 109, 32, 8237, 53, 49, 8236, 58, 8237, 51>> }
                                      \* "Psalm <U+202D>51<U+202C>:<U+202D>3"

InitCitation ==
    /\ reference \in Citations
    /\ called = "none"
    /\ result = NoResult
    /\ inner = NoResult
    /\ threads = << >>
    /\ cards = << >>
    /\ stats = NoResult
    /\ NoStatsCall

SpecCitation == InitCitation /\ [][Next]_vars

(* The two verse counters, the older and the current one, each called on   *)
(* the citation.                                                           *)
Call_count_verses_in_reference_old ==
    /\ called = "none"
    /\ \E overflow_checks \in BOOLEAN :
           result' = count_verses_in_reference_old(reference, overflow_checks)
    /\ called' = "count_verses_in_reference_old"
    /\ UNCHANGED <<reference, inner, threads, cards, stats,
                   now, revlog, page_stat_data, days>>

NextCounters ==
    \/ Call_count_verses_in_reference
    \/ Call_count_verses_in_reference_old

SpecCounters == Init /\ [][NextCounters]_vars

(* The book name extractor alone: the two entry points of                  *)
(* book_name_parser.rs.                                                    *)
NextBookName ==
    \/ Call_try_parse_book_name
    \/ Call_parse_book_name

SpecBookName == Init /\ [][NextBookName]_vars

(* The canon registry (module bible of the crate): the display names of    *)
(* the 39 Old Testament and the 27 New Testament books, in order.          *)
OLD_TESTAMENT ==
    << <<71, 101, 110, 101, 115, 105, 115>>,    \* "Genesis"
       <<69, 120, 111, 100, 117, 115>>,    \* "Exodus"
       <<76, 101, 118, 105, 116, 105, 99, 117, 115>>,    \* "Leviticus"
       <<78, 117, 109, 98, 101, 114, 115>>,    \* "Numbers"
       <<68, 101, 117, 116, 101, 114, 111, 110, 111, 109, 121>>,    \* "Deuteronomy"
       <<74, 111, 115, 104, 117, 97>>,    \* "Joshua"
       <<74, 117, 100, 103, 101, 115>>,    \* "Judges"
       <<82, 117, 116, 104>>,    \* "Ruth"
       <<49, 32, 83, 97, 109, 117, 101, 108>>,    \* "1 Samuel"
       <<50, 32, 83, 97, 109, 117, 101, 108>>,    \* "2 Samuel"
       <<49, 32, 75, 105, 110, 103, 115>>,    \* "1 Kings"
       <<50, 32, 75, 105, 110, 103, 115>>,    \* "2 Kings"
       <<49, 32, 67, 104, 114, 111, 110, 105, 99, 108, 101, 115>>,    \* "1 Chronicles"
       <<50, 32, 67, 104, 114, 111, 110, 105, 99, 108, 101, 115>>,    \* "2 Chronicles"
       <<69, 122, 114, 97>>,    \* "Ezra"
       <<78, 101, 104, 101, 109, 105, 97, 104>>,    \* "Nehemiah"
       <<69, 115, 116, 104, 101, 114>>,    \* "Esther"
       <<74, 111, 98>>,    \* "Job"
       <<80, 115, 97, 108, 109, 115>>,    \* "Psalms"
       <<80, 114, 111, 118, 101, 114, 98, 115>>,    \* "Proverbs"
       <<69, 99, 99, 108, 101, 115, 105, 97, 115, 116, 101, 115>>,    \* "Ecclesiastes"
       <<83, 111, 110, 103, 32, 111, 102, 32, 83, 111, 108, 111, 109, 111, 110>>,    \* "Song of Solomon"
       <<73, 115, 97, 105, 97, 104>>,    \* "Isaiah"
       <<74, 101, 114, 101, 109, 105, 97, 104>>,    \* "Jeremiah"
       <<76, 97, 109, 101, 110, 116, 97, 116, 105, 111, 110, 115>>,    \* "Lamentations"
       <<69, 122, 101, 107, 105, 101, 108>>,    \* "Ezekiel"
       <<68, 97, 110, 105, 101, 108>>,    \* "Daniel"
       <<72, 111, 115, 101, 97>>,    \* "Hosea"
       <<74, 111, 101, 108>>,    \* "Joel"
       <<65, 109, 111, 115>>,    \* "Amos"
       <<79, 98, 97, 100, 105, 97, 104>>,    \* "Obadiah"
       <<74, 111, 110, 97, 104>>,    \* "Jonah"
       <<77, 105, 99, 97, 104>>,    \* "Micah"
       <<78, 97, 104, 117, 109>>,    \* "Nahum"
       <<72, 97, 98, 97, 107, 107, 117, 107>>,    \* "Habakkuk"
       <<90, 101, 112, 104, 97, 110, 105, 97, 104>>,    \* "Zephaniah"
       <<72, 97, 103, 103, 97, 105>>,    \* "Haggai"
       <<90, 101, 99, 104, 97, 114, 105, 97, 104>>,    \* "Zechariah"
       <<77, 97, 108, 97, 99, 104, 105>> >>    \* "Malachi"

NEW_TESTAMENT ==
    << <<77, 97, 116, 116, 104, 101, 119>>,    \* "Matthew"
       <<77, 97, 114, 107>>,    \* "Mark"
       <<76, 117, 107, 101>>,    \* "Luke"
       <<74, 111, 104, 110>>,    \* "John"
       <<65, 99, 116, 115>>,    \* "Acts"
       <<82, 111, 109, 97, 110, 115>>,    \* "Romans"
       <<49, 32, 67, 111, 114, 105, 110, 116, 104, 105, 97, 110, 115>>,    \* "1 Corinthians"
       <<50, 32, 67, 111, 114, 105, 110, 116, 104, 105, 97, 110, 115>>,    \* "2 Corinthians"
       <<71, 97, 108, 97, 116, 105, 97, 110, 115>>,    \* "Galatians"
       <<69, 112, 104, 101, 115, 105, 97, 110, 115>>,    \* "Ephesians"
       <<80, 104, 105, 108, 105, 112, 112, 105, 97, 110, 115>>,    \* "Philippians"
       <<67, 111, 108, 111, 115, 115, 105, 97, 110, 115>>,    \* "Colossians"
       <<49, 32, 84, 104, 101, 115, 115, 97, 108, 111, 110, 105, 97, 110, 115>>,    \* "1 Thessalonians"
       <<50, 32, 84, 104, 101, 115, 115, 97, 108, 111, 110, 105, 97, 110, 115>>,    \* "2 Thessalonians"
       <<49, 32, 84, 105, 109, 111, 116, 104, 121>>,    \* "1 Timothy"
       <<50, 32, 84, 105, 109, 111, 116, 104, 121>>,    \* "2 Timothy"
       <<84, 105, 116, 117, 115>>,    \* "Titus"
       <<80, 104, 105, 108, 101, 109, 111, 110>>,    \* "Philemon"
       <<72, 101, 98, 114, 101, 119, 115>>,    \* "Hebrews"
       <<74, 97, 109, 101, 115>>,    \* "James"
       <<49, 32, 80, 101, 116, 101, 114>>,    \* "1 Peter"
       <<50, 32, 80, 101, 116, 101, 114>>,    \* "2 Peter"
       <<49, 32, 74, 111, 104, 110>>,    \* "1 John"
       <<50, 32, 74, 111, 104, 110>>,    \* "2 John"
       <<51, 32, 74, 111, 104, 110>>,    \* "3 John"
       <<74, 117, 100, 101>>,    \* "Jude"
       <<82, 101, 118, 101, 108, 97, 116, 105, 111, 110>> >>    \* "Revelation"

all_books == { OLD_TESTAMENT[i] : i \in 1..Len(OLD_TESTAMENT) }
             \cup { NEW_TESTAMENT[i] : i \in 1..Len(NEW_TESTAMENT) }

(* One call of an entry point of the book name extractor on a citation of  *)
(* a book of the canon, or on one of a few citations that are not.         *)
PsalmSpellings ==
    { <<80, 115, 97, 108, 109>>,       \* "Psalm"
      <<80, 83, 65, 76, 77>>,          \* "PSALM"
      <<112, 115, 97, 108, 109>>,      \* "psalm"
      <<112, 83, 97, 76, 109>> }       \* "pSaLm"

CanonLocators ==
    { << >>,
      <<51, 58, 49, 54>>,                      \* "3:16"
      <<50, 52, 45, 50, 53>>,                  \* "24-25"
      <<8237, 49, 58, 57, 97, 45, 49, 50>> }   \* "<U+202D>1:9a-12"

CanonCitations ==
    { b \o <<SPACE>> \o l : b \in all_books \cup PsalmSpellings, l \in CanonLocators }
    \cup { <<74, 85, 68, 69, 32, 53>>,                              \* "JUDE 5"
           <<49, 32, 74, 111, 104, 110, 32, 49, 58, 49, 32, 45, 32, 51>>,  \* "1 John 1:1 - 3"
           <<71, 101, 110, 101, 115, 105, 115>> }                   \* "Genesis"

InitCanon ==
    /\ reference \in CanonCitations
    /\ called = "none"
    /\ result = NoResult
    /\ inner = NoResult
    /\ threads = << >>
    /\ cards = << >>
    /\ stats = NoResult
    /\ NoStatsCall

SpecCanon == InitCanon /\ [][NextBookName]_vars

(* Calls of the entry points on several threads.  A call runs in steps:    *)
(* the filter, then, for a counter, the search for the verse part and the  *)
(* count, and for the book name extractor the split.  threads[t] holds the *)
(* call of thread t: its entry point, its argument, where it is (pc), its  *)
(* result, and the locals of its frame, cleaned (line 21 of both parsers)  *)
(* and verse_part (verse_parser.rs line 37).                               *)

NumThreads == 2

Thread == 1..NumThreads

EntryPoints ==
    { "try_count_verses_in_reference", "count_verses_in_reference",
      "try_parse_book_name", "parse_book_name" }

Counters == { "try_count_verses_in_reference", "count_verses_in_reference" }

ThreadCitations ==
    { <<80, 83, 65, 76, 77, 32, 8237, 53, 49, 58, 51, 45, 52>>,   \* "PSALM <U+202D>51:3-4"
      <<74, 117, 100, 101, 32, 53>>,                              \* "Jude 5"
      <<71, 101, 110, 101, 115, 105, 115>> }                      \* "Genesis"

(* Mutant of frame_of: every call keeps its locals in the frame of         *)
(* thread 1.                                                               *)
frame_of_shared(t) == 1

(* The locals of a call are its own: they live in the frame of its thread. *)
frame_of(t) == t

(* What the entry point makes of the result r of its try_ function.        *)
returned(entry, r) ==
    CASE entry = "count_verses_in_reference" -> count_or_one(r)
      [] entry = "parse_book_name" -> some_or_none(r)
      [] OTHER -> r

InitThreads ==
    /\ threads \in [Thread -> [entry : EntryPoints, reference : ThreadCitations,
                               pc : {"start"}, result : {NoResult},
                               cleaned : {<< >>}, verse_part : {<< >>}]]
    /\ reference = << >>
    /\ called = "none"
    /\ result = NoResult
    /\ inner = NoResult
    /\ cards = << >>
    /\ stats = NoResult
    /\ NoStatsCall

Thread_filter(t) ==
    /\ threads[t].pc = "start"
    /\ threads' = [threads EXCEPT
           ![frame_of(t)].cleaned =
               IF threads[t].entry \in Counters
               THEN clean_reference(threads[t].reference)
               ELSE SelectSeq(threads[t].reference, book_filter),
           ![t].pc = "cleaned"]
    /\ UNCHANGED <<reference, called, result, inner, cards, stats,
                   now, revlog, page_stat_data, days>>

Thread_find_verse_part(t) ==
    /\ threads[t].pc = "cleaned"
    /\ threads[t].entry \in Counters
    /\ LET found == find_verse_part(threads[frame_of(t)].cleaned)
       IN threads' =
              IF found.tag = "Ok"
              THEN [threads EXCEPT ![frame_of(t)].verse_part = found.val,
                                   ![t].pc = "located"]
              ELSE [threads EXCEPT ![t].result = returned(threads[t].entry, found),
                                   ![t].pc = "done"]
    /\ UNCHANGED <<reference, called, result, inner, cards, stats,
                   now, revlog, page_stat_data, days>>

Thread_count_verse_part(t) ==
    /\ threads[t].pc = "located"
    /\ \E overflow_checks \in BOOLEAN :
           threads' = [threads EXCEPT
               ![t].result = returned(threads[t].entry,
                                      count_verse_part(threads[frame_of(t)].verse_part,
                                                       threads[frame_of(t)].cleaned,
                                                       overflow_checks)),
               ![t].pc = "done"]
    /\ UNCHANGED <<reference, called, result, inner, cards, stats,
                   now, revlog, page_stat_data, days>>

Thread_split_book_name(t) ==
    /\ threads[t].pc = "cleaned"
    /\ threads[t].entry \notin Counters
    /\ threads' = [threads EXCEPT
           ![t].result = returned(threads[t].entry,
                                  split_book_name(threads[frame_of(t)].cleaned)),
           ![t].pc = "done"]
    /\ UNCHANGED <<reference, called, result, inner, cards, stats,
                   now, revlog, page_stat_data, days>>

NextThreads ==
    \E t \in Thread :
        \/ Thread_filter(t)
        \/ Thread_find_verse_part(t)
        \/ Thread_count_verse_part(t)
        \/ Thread_split_book_name(t)

SpecThreads == InitThreads /\ [][NextThreads]_vars

(* One query of the statistics of all books on a table of at most MaxCards *)
(* cards.                                                                  *)

MaxCards == 2

CardCitations ==
    { <<80, 115, 97, 108, 109, 32, 53, 49, 58, 51, 45, 52>>,           \* "Psalm 51:3-4"
      <<71, 101, 110, 101, 115, 105, 115>>,                           \* "Genesis"
      <<74, 117, 100, 101, 32, 53, 58, 120>>,                         \* "Jude 5:x"
      <<80, 83, 65, 76, 77, 32, 53, 58, 48, 45>> \o I64MaxDigits,     \* "PSALM 5:0-9223372036854775807"
      <<74, 117, 100, 101, 32, 49, 45>> \o I64MaxDigits }             \* "Jude 1-9223372036854775807"

CardRows ==
    { [sfld |-> c, queue |-> q[1], ivl |-> q[2], ord |-> 0] :
          c \in CardCitations,
          q \in { <<2, 21>>, <<2, 20>>, <<0, 0>>, <<-2, 21>> } }
    \cup { [sfld |-> <<74, 117, 100, 101, 32, 53, 58, 120>>, queue |-> 0, ivl |-> 0, ord |-> 1],
           [sfld |-> <<71, 101, 110, 101, 115, 105, 115>>, queue |-> 4, ivl |-> 0, ord |-> 0] }

Scans(n) == { p \in [1..n -> 1..n] : \A i, j \in 1..n : p[i] = p[j] => i = j }

InitCards ==
    /\ cards \in UNION { [1..n -> CardRows] : n \in 0..MaxCards }
    /\ stats = NoResult
    /\ NoStatsCall
    /\ reference = << >>
    /\ called = "none"
    /\ result = NoResult
    /\ inner = NoResult
    /\ threads = << >>

Call_get_all_books_stats ==
    /\ stats = NoResult
    /\ \E overflow_checks \in BOOLEAN, scan \in Scans(Len(cards)) :
           stats' = get_all_books_stats(cards, scan, overflow_checks)
    /\ UNCHANGED <<reference, called, result, inner, threads, cards,
                   now, revlog, page_stat_data, days>>

NextCards == Call_get_all_books_stats

SpecCards == InitCards /\ [][NextCards]_vars

----------------------------------------------------------------------------
(* statsutils: day and week boundaries with the 4 AM rollover.             *)
(*                                                                         *)
(* An instant (a timestamp, a reading of Local::now()) is a whole number   *)
(* of hours; instant 0 is the midnight of Central Standard Time that       *)
(* begins the Sunday on which daylight saving time ends in TIMEZONE        *)
(* (America/Chicago), where the clocks are an hour ahead until 02:00 and   *)
(* are set back to 01:00 then.  A date is the number of its day (day 0 is  *)
(* that Sunday) and stands for its "%Y-%m-%d" string: the format is        *)
(* one-to-one, so two strings are equal exactly when the day numbers are.  *)

ROLLOVER_HOUR == 4
HoursPerDay == 24
DaysPerWeek == 7

(* The instant at which daylight saving time ends.                         *)
DstEnd == 1

(* The hours that local time is ahead of standard time at an instant.      *)
utc_offset(t) == IF t < DstEnd THEN 1 ELSE 0

(* The local date and time of an instant, in hours.                        *)
naive_local(t) == t + utc_offset(t)

(* year(), month(), day() of an instant, and its "%Y-%m-%d".               *)
date_of(t) == naive_local(t) \div HoursPerDay

(* The instant of the midnight that begins a date; .single() finds one,    *)
(* because the clocks are never set at midnight.                           *)
with_ymd_and_hms(date) ==
    CHOOSE t \in { date * HoursPerDay - 1, date * HoursPerDay } :
        naive_local(t) = date * HoursPerDay

num_days_from_sunday(t) == date_of(t) % DaysPerWeek

(* date_periods.rs lines 104-141 (the same text as lib.rs lines 35-72):    *)
(* <<start_ms, end_ms, date_str>> for the reading clock of the clock.      *)
get_day_boundaries(clock, day_offset) ==
    LET target_date == clock - day_offset * HoursPerDay
        day_midnight == with_ymd_and_hms(date_of(target_date))
        day_start == day_midnight + ROLLOVER_HOUR
        next_day_start == day_start + HoursPerDay
    IN <<day_start, next_day_start, date_of(target_date)>>

(* date_periods.rs lines 145-186 (the same text as lib.rs lines 86-128).   *)
get_week_boundaries(clock, week_offset) ==
    LET days_since_sunday == num_days_from_sunday(clock)
        target_date == clock - days_since_sunday * HoursPerDay
                             - week_offset * DaysPerWeek * HoursPerDay
        week_midnight == with_ymd_and_hms(date_of(target_date))
        week_start == week_midnight + ROLLOVER_HOUR
        next_week_start == week_start + DaysPerWeek * HoursPerDay
    IN <<week_start, next_week_start, date_of(target_date)>>

(* date_periods.rs lines 97-100.                                           *)
get_today_start_ms(clock) == get_day_boundaries(clock, 0)[1]

(* sqlite_functions.rs lines 9-25: the logical date of a timestamp.        *)
timestamp_ms_to_date_string(timestamp_ms) ==
    date_of(timestamp_ms - ROLLOVER_HOUR)

(* n.rev() of the range 0..n, as the sequence of the loop's iterations.    *)
rev_range(n) == [i \in 1..n |-> n - i]

DAYS == 30
WEEKS == 12

(* date_periods.rs lines 21-36; clocks are the readings of the clock of    *)
(* the 2 + DAYS calls of get_day_boundaries, in the order of the calls.    *)
last_30_days(clocks) ==
    [ start_ms |-> get_day_boundaries(clocks[1], DAYS - 1)[1],
      end_ms |-> get_day_boundaries(clocks[2], 0)[2],
      dates |-> [i \in 1..DAYS |->
                    get_day_boundaries(clocks[2 + i], rev_range(DAYS)[i])[3]] ]

(* i64::default().                                                         *)
i64_default == 0

(* date_periods.rs lines 57-72, with T = i64: the arguments of mapper for  *)
(* each result.  results.remove(&date) finds a value only at the first     *)
(* place of a date in self.dates.                                          *)
build_results(self, results) ==
    [i \in 1..Len(self.dates) |->
        LET date == self.dates[i]
            removed == \E j \in 1..(i - 1) : self.dates[j] = date
        IN <<date, IF date \in DOMAIN results /\ ~removed
                   THEN results[date]
                   ELSE i64_default>>]

----------------------------------------------------------------------------
(* ankistats/src/db.rs: study time and progress of the last days and       *)
(* weeks.  A row of revlog is taken after its joins with cards and notes:  *)
(* id is its timestamp, time the milliseconds studied, queue the queue of  *)
(* its card; rows of other decks, note types and templates are left out.   *)

QUEUE_TYPE_SUSPENDED == -1
MatureInterval == 21
MsPerMinute == 60000
SecondsPerMinute == 60

(* x as f64 / d: the quotient, kept as a fraction.                         *)
as_minutes(x, d) == [num |-> x, den |-> d]

RECURSIVE sum_of(_, _)
(* SUM(column) over a set of rows.                                         *)
sum_of(rows, column) ==
    IF rows = {} THEN 0
    ELSE LET r == CHOOSE r \in rows : TRUE
         IN r[column] + sum_of(rows \ {r}, column)

(* WHERE r.id >= start AND r.id < end.                                     *)
between(log, start_ms, end_ms) == { r \in log : r.id >= start_ms /\ r.id < end_ms }

(* The rows of the progress query: c.queue != QUEUE_TYPE_SUSPENDED.        *)
progress_rows(log, start_ms, end_ms) ==
    { r \in between(log, start_ms, end_ms) : r.queue # QUEUE_TYPE_SUSPENDED }

matured(rows) ==
    Cardinality({ r \in rows : r.lastIvl < MatureInterval /\ r.ivl >= MatureInterval })

lost(rows) ==
    Cardinality({ r \in rows : r.lastIvl >= MatureInterval /\ r.ivl < MatureInterval })

(* A variant that forgets the lost passages.                               *)
update_cumulative_matured_only(cumulative_passages, matured_passages, lost_passages) ==
    cumulative_passages + matured_passages

(* db.rs line 219 (and 283): cumulative_passages += matured - lost.        *)
update_cumulative(cumulative_passages, matured_passages, lost_passages) ==
    cumulative_passages + (matured_passages - lost_passages)

(* One iteration of the loop for the boundaries b: the new entry, without  *)
(* its date.                                                               *)
period_entry(log, b, cumulative_passages) ==
    [ minutes |-> as_minutes(sum_of(between(log, b[1], b[2]), "time"), MsPerMinute),
      matured_passages |-> matured(progress_rows(log, b[1], b[2])),
      lost_passages |-> lost(progress_rows(log, b[1], b[2])),
      cumulative_passages |->
          update_cumulative(cumulative_passages,
                            matured(progress_rows(log, b[1], b[2])),
                            lost(progress_rows(log, b[1], b[2]))) ]

DayStats(date, e) ==
    [ date |-> date, minutes |-> e.minutes, matured_passages |-> e.matured_passages,
      lost_passages |-> e.lost_passages, cumulative_passages |-> e.cumulative_passages ]

WeekStats(week_start, e) ==
    [ week_start |-> week_start, minutes |-> e.minutes,
      matured_passages |-> e.matured_passages,
      lost_passages |-> e.lost_passages, cumulative_passages |-> e.cumulative_passages ]

RECURSIVE days_from(_, _, _, _)
(* db.rs lines 179-229: the iterations from the i-th on; clocks[i] is the  *)
(* reading of the clock in the i-th iteration.                             *)
days_from(log, clocks, i, cumulative_passages) ==
    IF i > DAYS THEN << >>
    ELSE LET b == get_day_boundaries(clocks[i], rev_range(DAYS)[i])
             e == period_entry(log, b, cumulative_passages)
         IN <<DayStats(b[3], e)>> \o days_from(log, clocks, i + 1, e.cumulative_passages)

(* db.rs lines 171-231.                                                    *)
get_last_30_days_stats(log, clocks) == days_from(log, clocks, 1, 0)

RECURSIVE weeks_from(_, _, _, _)
(* db.rs lines 243-293.                                                    *)
weeks_from(log, clocks, i, cumulative_passages) ==
    IF i > WEEKS THEN << >>
    ELSE LET b == get_week_boundaries(clocks[i], rev_range(WEEKS)[i])
             e == period_entry(log, b, cumulative_passages)
         IN <<WeekStats(b[3], e)>> \o weeks_from(log, clocks, i + 1, e.cumulative_passages)

(* db.rs lines 234-295.                                                    *)
get_last_12_weeks_stats(log, clocks) == weeks_from(log, clocks, 1, 0)

(* db.rs lines 152-168.                                                    *)
get_today_study_minutes(log, clock) ==
    as_minutes(sum_of({ r \in log : r.id >= get_today_start_ms(clock) }, "time"),
               MsPerMinute)

----------------------------------------------------------------------------
(* readingstats/src/db.rs and faithstats/src/lib.rs.  A row of             *)
(* page_stat_data is taken after its join with the books the query         *)
(* selects: start_time is its timestamp, duration its seconds.             *)

ReadingDayStats(date, total_seconds) ==
    [ date |-> date, minutes |-> as_minutes(total_seconds, SecondsPerMinute) ]

(* GROUP BY date_str_from_sec(start_time) with SUM(duration), collected    *)
(* into a HashMap.                                                         *)
reading_results(sessions, start_sec, end_sec) ==
    LET selected == { r \in sessions : r.start_time >= start_sec /\ r.start_time < end_sec }
        dates == { timestamp_ms_to_date_string(r.start_time) : r \in selected }
    IN [ date \in dates |->
           sum_of({ r \in selected : timestamp_ms_to_date_string(r.start_time) = date },
                  "duration") ]

(* readingstats/src/db.rs lines 42-74.  Its timestamps are seconds, the    *)
(* bounds start_ms / 1000 and end_ms / 1000; both are whole hours here.    *)
reading_get_last_30_days_stats(sessions, clocks) ==
    LET period == last_30_days(clocks)
        built == build_results(period,
                               reading_results(sessions, period.start_ms, period.end_ms))
    IN [i \in DOMAIN built |-> ReadingDayStats(built[i][1], built[i][2])]

FaithDayStats(anki_day, reading_day) ==
    [ date |-> anki_day.date,
      anki_minutes |-> anki_day.minutes,
      anki_matured_passages |-> anki_day.matured_passages,
      anki_lost_passages |-> anki_day.lost_passages,
      anki_cumulative_passages |-> anki_day.cumulative_passages,
      reading_minutes |-> reading_day.minutes,
      prayer_minutes |-> as_minutes(0, 1) ]

(* Iterator::zip: as long as the shorter of the two.                       *)
zip(xs, ys) ==
    [i \in 1..(IF Len(xs) < Len(ys) THEN Len(xs) ELSE Len(ys)) |-> <<xs[i], ys[i]>>]

(* The readings of the clock that get_faith_daily_stats hands to its two   *)
(* calls: DAYS for the first, 2 + DAYS for the second.                     *)
anki_clocks(clocks) == SubSeq(clocks, 1, DAYS)
reading_clocks(clocks) == SubSeq(clocks, DAYS + 1, 2 * DAYS + 2)

(* faithstats/src/lib.rs lines 32-58: the days of the FaithDailyStats.     *)
get_faith_daily_stats(log, sessions, clocks) ==
    LET zipped == zip(get_last_30_days_stats(log, anki_clocks(clocks)),
                      reading_get_last_30_days_stats(sessions, reading_clocks(clocks)))
    IN [i \in DOMAIN zipped |-> FaithDayStats(zipped[i][1], zipped[i][2])]

----------------------------------------------------------------------------
(* Calls of the dated statistics functions.  Each reading of the clock is  *)
(* the start instant plus the hours that have passed: the clock may        *)
(* advance by an hour before any reading, at most MaxTicks times in one    *)
(* call, and never goes back.                                              *)

MaxTicks == 1

RECURSIVE TickSets(_, _)
TickSets(n, k) ==
    IF k = 0 THEN { {} }
    ELSE LET S == TickSets(n, k - 1)
         IN S \cup { s \cup {i} : s \in S, i \in 1..n }

clock_readings(start, ticks, n) ==
    [i \in 1..n |-> start + Cardinality({ k \in ticks : k <= i })]

Readings(start, n) ==
    { clock_readings(start, ticks, n) : ticks \in TickSets(n, MaxTicks) }

(* Sunday 03:00 (before the rollover), Sunday 23:00 (an hour before the    *)
(* date changes), Saturday 23:00 (an hour before the week changes) and     *)
(* noon of the Monday after it.                                            *)
StartInstants == { 3, 23, 167, 204 }

Reviews ==
    [ matured |-> [id |-> 10, lastIvl |-> 20, ivl |-> 21, time |-> 60000, queue |-> 2],
      lost |-> [id |-> -20, lastIvl |-> 21, ivl |-> 20, time |-> 120000, queue |-> 2],
      suspended |-> [id |-> 30, lastIvl |-> 0, ivl |-> 21, time |-> 30000, queue |-> -1],
      later |-> [id |-> 180, lastIvl |-> 1, ivl |-> 30, time |-> 90000, queue |-> 1],
      early |-> [id |-> -500, lastIvl |-> 25, ivl |-> 1, time |-> 45000, queue |-> -2] ]

Sessions ==
    [ today |-> [start_time |-> 10, duration |-> 600],
      first_day |-> [start_time |-> -690, duration |-> 300],
      night |-> [start_time |-> 25, duration |-> 120] ]

Databases ==
    { [revlog |-> {}, page_stat_data |-> {}],
      [revlog |-> {Reviews.matured, Reviews.lost},
       page_stat_data |-> {Sessions.today}],
      [revlog |-> {Reviews.matured, Reviews.suspended, Reviews.later, Reviews.early},
       page_stat_data |-> {Sessions.today, Sessions.first_day}],
      [revlog |-> {Reviews.lost, Reviews.early, Reviews.later},
       page_stat_data |-> {Sessions.first_day, Sessions.night}] }

(* No parser is involved.                                                  *)
NoParserCall ==
    /\ reference = << >>
    /\ called = "none"
    /\ result = NoResult
    /\ inner = NoResult
    /\ threads = << >>
    /\ cards = << >>
    /\ stats = NoResult

(* What a call returned, with the readings of the clock it took.           *)
Returned(entry, val, clocks) ==
    [tag |-> "Ok", entry |-> entry, val |-> val, clocks |-> clocks]

InitStats ==
    /\ now \in StartInstants
    /\ \E db \in Databases :
           /\ revlog = db.revlog
           /\ page_stat_data = db.page_stat_data
    /\ days = NoResult
    /\ NoParserCall

Call_get_last_30_days_stats ==
    /\ days = NoResult
    /\ \E clocks \in Readings(now, DAYS) :
           /\ days' = Returned("get_last_30_days_stats",
                               get_last_30_days_stats(revlog, clocks), clocks)
           /\ now' = clocks[Len(clocks)]
    /\ UNCHANGED <<reference, called, result, inner, threads, cards, stats,
                   revlog, page_stat_data>>

Call_get_last_12_weeks_stats ==
    /\ days = NoResult
    /\ \E clocks \in Readings(now, WEEKS) :
           /\ days' = Returned("get_last_12_weeks_stats",
                               get_last_12_weeks_stats(revlog, clocks), clocks)
           /\ now' = clocks[Len(clocks)]
    /\ UNCHANGED <<reference, called, result, inner, threads, cards, stats,
                   revlog, page_stat_data>>

Call_reading_get_last_30_days_stats ==
    /\ days = NoResult
    /\ \E clocks \in Readings(now, DAYS + 2) :
           /\ days' = Returned("reading_get_last_30_days_stats",
                               reading_get_last_30_days_stats(page_stat_data, clocks),
                               clocks)
           /\ now' = clocks[Len(clocks)]
    /\ UNCHANGED <<reference, called, result, inner, threads, cards, stats,
                   revlog, page_stat_data>>

Call_get_faith_daily_stats ==
    /\ days = NoResult
    /\ \E clocks \in Readings(now, 2 * DAYS + 2) :
           /\ days' = Returned("get_faith_daily_stats",
                               get_faith_daily_stats(revlog, page_stat_data, clocks),
                               clocks)
           /\ now' = clocks[Len(clocks)]
    /\ UNCHANGED <<reference, called, result, inner, threads, cards, stats,
                   revlog, page_stat_data>>

NextStats ==
    \/ Call_get_last_30_days_stats
    \/ Call_get_last_12_weeks_stats
    \/ Call_reading_get_last_30_days_stats
    \/ Call_get_faith_daily_stats

SpecStats == InitStats /\ [][NextStats]_vars

(* One reading of the clock at any hour of two days, the first the Sunday  *)
(* on which daylight saving time ends.                                     *)

MaxNow == 47

InitClock ==
    /\ now \in 0..MaxNow
    /\ \E db \in Databases :
           /\ revlog = db.revlog
           /\ page_stat_data = db.page_stat_data
    /\ days = NoResult
    /\ NoParserCall

Call_get_day_boundaries ==
    /\ days = NoResult
    /\ \E day_offset \in { 0, 1, DAYS - 1 } :
           days' = [tag |-> "Ok", entry |-> "get_day_boundaries",
                    day_offset |-> day_offset,
                    val |-> get_day_boundaries(now, day_offset), clocks |-> <<now>>]
    /\ UNCHANGED <<reference, called, result, inner, threads, cards, stats,
                   now, revlog, page_stat_data>>

Call_get_today_start_ms ==
    /\ days = NoResult
    /\ days' = Returned("get_today_start_ms", get_today_start_ms(now), <<now>>)
    /\ UNCHANGED <<reference, called, result, inner, threads, cards, stats,
                   now, revlog, page_stat_data>>

Call_get_today_study_minutes ==
    /\ days = NoResult
    /\ days' = Returned("get_today_study_minutes",
                        get_today_study_minutes(revlog, now), <<now>>)
    /\ UNCHANGED <<reference, called, result, inner, threads, cards, stats,
                   now, revlog, page_stat_data>>

NextClock ==
    \/ Call_get_day_boundaries
    \/ Call_get_today_start_ms
    \/ Call_get_today_study_minutes

SpecClock == InitClock /\ [][NextClock]_vars

----------------------------------------------------------------------------
(* Vocabulary of the properties, written from their wording: the cleaned   *)
(* text, the locator and the two sides of a range of a citation, and the   *)
(* order and arithmetic of decimal numerals of any length.                 *)

Stripped(c) ==
    c \in 0..31 \/ c \in 127..159 \/ c \in {8203, 65279} \/ c \in 8234..8238

Kept(c) == ~Stripped(c)

LowerCase(s) == [i \in 1..Len(s) |-> IF s[i] \in 65..90 THEN s[i] + 32 ELSE s[i]]

IsSingleChapterName(s) ==
    LowerCase(s) \in { LowerCase(SINGLE_CHAPTER_BOOKS[i]) : i \in 1..Len(SINGLE_CHAPTER_BOOKS) }

DigitPrefix(s) == SubSeq(s, 1, DigitRunLen(s))

(* The parts of the citation raw:                                          *)
(*   cleaned      raw without the stripped characters                      *)
(*   colon, space position of the last colon / last space of cleaned, or 0 *)
(*   book         the text before the last space                           *)
(*   tail         the text after the last space                            *)
(*   single       no colon, a space, and book is a single-chapter name     *)
(*   located      there is a locator (a colon, or single)                  *)
(*   untrimmed    the text after the last colon, else after the last space *)
(*   locator      untrimmed, trimmed                                       *)
(*   hyphen       position of the first hyphen of locator, or 0            *)
(*   verse, a, b  the digit prefixes of locator and of the trimmed texts   *)
(*                before and after the first hyphen                        *)
PartsOfLocator(cl, colon, space, book, untrimmed, loc, h) ==
    [ cleaned |-> cl, colon |-> colon, space |-> space,
      book |-> book, tail |-> After(cl, space),
      single |-> (colon = 0 /\ space # 0 /\ IsSingleChapterName(book)),
      located |-> (colon # 0 \/ (space # 0 /\ IsSingleChapterName(book))),
      untrimmed |-> untrimmed, locator |-> loc, hyphen |-> h,
      verse |-> DigitPrefix(loc),
      a |-> DigitPrefix(trim(Before(loc, h))),
      b |-> DigitPrefix(trim(After(loc, h))) ]

PartsOfUntrimmed(cl, colon, space, untrimmed, loc) ==
    PartsOfLocator(cl, colon, space, Before(cl, space), untrimmed, loc, find(loc, 45))

PartsOfCleaned(cl, colon, space, untrimmed) ==
    PartsOfUntrimmed(cl, colon, space, untrimmed, trim(untrimmed))

PartsAt(cl, colon, space) ==
    PartsOfCleaned(cl, colon, space, After(cl, IF colon # 0 THEN colon ELSE space))

PartsOf(cl) == PartsAt(cl, rfind(cl, 58), rfind(cl, 32))

Parts(raw) == PartsOf(SelectSeq(raw, Kept))

(* x <= y for decimal numerals x and y (sequences of digits).              *)
DecLE(x, y) ==
    LET sx == StripLeadingZeros(x)
        sy == StripLeadingZeros(y)
    IN \/ Len(sx) < Len(sy)
       \/ /\ Len(sx) = Len(sy)
          /\ \/ sx = sy
             \/ \E i \in 1..Len(sx) :
                    /\ sx[i] < sy[i]
                    /\ \A j \in 1..(i-1) : sx[j] = sy[j]

FitsI64(x) == DecLE(x, I64MaxDigits)

(* b - a + 1 as a number, for numerals a <= b of at most 27 digits.        *)
InclusiveCount(a, b) ==
    MagAdd(MagSub(DigitsToMag(StripLeadingZeros(b)), DigitsToMag(StripLeadingZeros(a))),
           MagOne)

Short(x) == Len(StripLeadingZeros(x)) <= 27

CalledCounter == called \in {"try_count_verses_in_reference", "count_verses_in_reference"}

----------------------------------------------------------------------------
(* The properties.  Where a property speaks of the parts of the citation,  *)
(* its condition on the parts c of the citation is stated first (..._For)  *)
(* and the property applies it to Parts(reference).                        *)

C1_For(c) ==
    ( /\ c.colon # 0
      /\ c.hyphen # 0
      /\ c.a # << >>
      /\ c.b # << >>
      /\ DecLE(c.a, c.b) )
    => /\ result.tag = "Ok"
       /\ ~result.val.neg
       /\ (Short(c.a) /\ Short(c.b)) => result.val.mag = InclusiveCount(c.a, c.b)

(* C1: a citation with a colon whose locator is A-B, A and B digit-led     *)
(* with digit prefixes a <= b, makes try_count_verses_in_reference return  *)
(* Ok(b - a + 1).                                                          *)
C1_RangeIsInclusiveCount ==
    called = "try_count_verses_in_reference" => C1_For(Parts(reference))

(* C2: every count produced, by either counter, is at least 1.             *)
C2_CountAtLeastOne ==
    (CalledCounter /\ result.tag \in {"Ok", "Value"})
    => (~result.val.neg /\ MagLE(MagOne, result.val.mag))

(* C3: count_verses_in_reference returns n when the inner                  *)
(* try_count_verses_in_reference returned Ok(n) and 1 when it returned an  *)
(* error; it never hands an error to its caller.                           *)
C3_WrapperFallsBackToOne ==
    called = "count_verses_in_reference"
    => /\ result.tag # "Err"
       /\ inner.tag = "Ok" => result = Value(inner.val)
       /\ inner.tag = "Err" => result = Value(I64One)

C3_Witness ==
    /\ called = "count_verses_in_reference"
    /\ inner.tag = "Err"
    /\ result = Value(I64One)

(* C4: parse_book_name returns Some(b) exactly when the inner              *)
(* try_parse_book_name returned Ok(b), and None when it returned an error. *)
C4_WrapperSomeOrNone ==
    called = "parse_book_name"
    => /\ inner.tag \in {"Ok", "Err"}
       /\ result.tag \in {"Some", "None"}
       /\ inner.tag = "Ok" <=> result.tag = "Some"
       /\ inner.tag = "Ok" => result = Some(inner.val)
       /\ inner.tag = "Err" => result = None

C4_Witness ==
    /\ called = "parse_book_name"
    /\ inner.tag = "Err"
    /\ result = None

(* C5: every call of the four entry points returns a value; none panics.   *)
C5_NoCallPanics ==
    called # "none" => result.tag \in {"Ok", "Err", "Value", "Some", "None"}

C6_For(c) ==
    ( /\ c.located
      /\ c.hyphen # 0
      /\ (c.a = << >> \/ c.b = << >> \/ ~DecLE(c.a, c.b)) )
    => IF called = "try_count_verses_in_reference"
       THEN result.tag = "Err" /\ result.kind = "InvalidRange"
       ELSE result = Value(I64One)

(* C6: a locator with a hyphen whose side has no leading digit, or whose   *)
(* end number is smaller than its start number, is an InvalidRange error   *)
(* of try_count_verses_in_reference and 1 from count_verses_in_reference.  *)
C6_BadRangeIsInvalidRange ==
    CalledCounter => C6_For(Parts(reference))

C6_WitnessFor(c) ==
    /\ c.located
    /\ c.hyphen # 0
    /\ c.a # << >>
    /\ c.b # << >>
    /\ ~DecLE(c.a, c.b)

C6_Witness ==
    /\ called = "count_verses_in_reference"
    /\ inner.tag = "Err"
    /\ inner.kind = "InvalidRange"
    /\ result = Value(I64One)
    /\ C6_WitnessFor(Parts(reference))

C7_For(c) ==
    c.single
    => /\ \E overflow_checks \in BOOLEAN :
              result = count_verse_part(c.tail, c.cleaned, overflow_checks)
       /\ result.tag = "Err" => result.kind \in {"InvalidRange", "InvalidVerse"}
       /\ (c.hyphen = 0 /\ c.verse # << >> /\ FitsI64(c.verse))
          => result = Ok(I64One)
       /\ ( /\ c.hyphen # 0
            /\ c.a # << >>
            /\ c.b # << >>
            /\ FitsI64(c.b)
            /\ DecLE(c.a, c.b)
            /\ MagLE(InclusiveCount(c.a, c.b), I64Max) )
          => result = Ok(I64(FALSE, InclusiveCount(c.a, c.b)))

C7_WitnessFor(c) ==
    /\ c.single
    /\ c.book # SINGLE_CHAPTER_BOOKS[5]
    /\ c.hyphen # 0

C8_For(c) ==
    (c.colon = 0 /\ c.space # 0 /\ ~IsSingleChapterName(c.book))
    => IF called = "try_count_verses_in_reference"
       THEN result.tag = "Err" /\ result.kind = "NoColonFound"
       ELSE result = Value(I64One)

(* C8: a colon-less citation with a space whose text before the last space *)
(* is none of the five single-chapter names is a NoColonFound error of     *)
(* try_count_verses_in_reference and 1 from count_verses_in_reference.     *)
C8_MultiChapterNeedsColon ==
    CalledCounter => C8_For(Parts(reference))

C8_WitnessFor(c) ==
    /\ c.colon = 0
    /\ c.space # 0
    /\ ~IsSingleChapterName(c.book)
    /\ IsSingleChapterName(trim(c.book))
    /\ DigitPrefix(c.tail) # << >>

C8_Witness ==
    /\ called = "try_count_verses_in_reference"
    /\ result.tag = "Err"
    /\ result.kind = "NoColonFound"
    /\ C8_WitnessFor(Parts(reference))

C9_AsClaimedFor(c) ==
    (c.located /\ c.hyphen = 0)
    => IF c.verse # << >>
       THEN result = Ok(I64One)
       ELSE result.tag = "Err" /\ result.kind = "InvalidVerse"

(* C9, as claimed: a locator without a hyphen gives Ok(1) when, trimmed,   *)
(* it begins with an ASCII digit, and an InvalidVerse error otherwise.     *)
C9_DigitLedVerseIsOne ==
    called = "try_count_verses_in_reference" => C9_AsClaimedFor(Parts(reference))

C9_For(c) ==
    (c.located /\ c.hyphen = 0)
    => IF c.verse # << >> /\ FitsI64(c.verse)
       THEN result = Ok(I64One)
       ELSE result.tag = "Err" /\ result.kind = "InvalidVerse"

(* C9, amended: a locator without a hyphen gives Ok(1) when, trimmed, it   *)
(* begins with a run of ASCII digits whose value is at most                *)
(* 9223372036854775807, and an InvalidVerse error otherwise (no leading    *)
(* digit, an empty locator, or a digit run above that value).              *)
C9_VerseInI64IsOne ==
    called = "try_count_verses_in_reference" => C9_For(Parts(reference))

C9_WitnessFor(c) ==
    /\ c.located
    /\ c.hyphen = 0
    /\ c.verse # << >>
    /\ c.verse # c.locator
    /\ FitsI64(c.verse)

C9_Witness ==
    /\ called = "try_count_verses_in_reference"
    /\ result = Ok(I64One)
    /\ C9_WitnessFor(Parts(reference))

(* Positions of the citation raw, with parts c, right after which a letter *)
(* suffix goes: the last digit of the digit run of the single verse, of    *)
(* the range start and of the range end (meaningful when there is a        *)
(* locator and the runs exist).                                            *)
SuffixEnds(c, sep, lead, lead2) ==
    IF c.hyphen = 0
    THEN { sep + lead + Len(c.verse) }
    ELSE { sep + lead + Len(c.a), sep + lead + c.hyphen + lead2 + Len(c.b) }

KeptBefore(raw, p) == Len(SelectSeq(SubSeq(raw, 1, p), Kept))

PositionsAt(raw, ends) ==
    { p \in 1..Len(raw) : Kept(raw[p]) /\ KeptBefore(raw, p) \in ends }

LeadingWhiteSpace(s) == Len(s) - Len(trim_start(s))

SuffixPositionsOf(raw, c) ==
    PositionsAt(raw, SuffixEnds(c,
                                IF c.colon # 0 THEN c.colon ELSE c.space,
                                LeadingWhiteSpace(c.untrimmed),
                                LeadingWhiteSpace(After(c.locator, c.hyphen))))

SuffixPositions(raw) == SuffixPositionsOf(raw, Parts(raw))

LetterSuffixes == { <<97>>, <<66>>, <<97, 98>>, <<233>> }    \* "a" "B" "ab" "e-acute"

WithSuffix(s, p, letters) == SubSeq(s, 1, p) \o letters \o SubSeq(s, p + 1, Len(s))

C10_For(ps) ==
    \A overflow_checks \in BOOLEAN :
        result = try_count_verses_in_reference(reference, overflow_checks)
        => \A p \in ps, letters \in LetterSuffixes :
               try_count_verses_in_reference(WithSuffix(reference, p, letters),
                                             overflow_checks) = result

(* C10: for a citation try_count_verses_in_reference accepts, letters put  *)
(* right after the digits of the single verse, of the range start or of    *)
(* the range end leave the result unchanged.                               *)
C10_LetterSuffixIgnored ==
    (called = "try_count_verses_in_reference" /\ result.tag = "Ok")
    => C10_For(SuffixPositions(reference))

C10_WitnessFor(ps) ==
    /\ Cardinality(ps) = 2
    /\ \E p \in ps : reference[p] = 48 /\ p < Len(reference) /\ reference[p + 1] = 45

C10_Witness ==
    /\ called = "try_count_verses_in_reference"
    /\ result = Ok(I64(FALSE, <<2, 0, 0>>))
    /\ C10_WitnessFor(SuffixPositions(reference))

Alias(candidate) ==
    IF LowerCase(candidate) = LowerCase(PSALM) THEN PSALMS ELSE candidate

OtherTails == { << >>, <<51, 58, 49, 54>>, <<120>>, <<58, 8237, 45>> }  \* "" "3:16" "x" ":<U+202D>-"

C11_For(c) ==
    (c.space # 0 /\ trim(c.book) # << >>)
    => /\ result = Ok(Alias(trim(c.book)))
       /\ \A t \in OtherTails :
              try_parse_book_name(c.book \o <<32>> \o t) = result

(* C11: when the cleaned citation has a space and the text before its last *)
(* space is not blank, try_parse_book_name returns that text, trimmed and  *)
(* aliased, whatever follows the last space.                               *)
C11_BookIsTextBeforeLastSpace ==
    called = "try_parse_book_name" => C11_For(Parts(reference))

C11_WitnessFor(c) ==
    /\ c.book = <<50, 32, 74, 111, 104, 110>>
    /\ c.tail # << >>

C11_Witness ==
    /\ called = "try_parse_book_name"
    /\ result = Ok(<<50, 32, 74, 111, 104, 110>>)
    /\ C11_WitnessFor(Parts(reference))

C12_For(c) ==
    /\ result.tag \in {"Ok", "Err"}
    /\ result.tag = "Err" <=> (c.space = 0 \/ trim(c.book) = << >>)
    /\ result.tag = "Err" => result.kind \in {"NoSpaceFound", "EmptyBookName"}
    /\ (result.tag = "Err" /\ result.kind = "NoSpaceFound") <=> c.space = 0
    /\ (result.tag = "Err" /\ result.kind = "EmptyBookName")
           <=> (c.space # 0 /\ trim(c.book) = << >>)
    /\ result.tag = "Ok" => result.val # << >>

(* C12: try_parse_book_name fails with NoSpaceFound exactly when the       *)
(* cleaned citation has no space, with EmptyBookName exactly when the text *)
(* before the last space is blank, and otherwise returns a non-empty name. *)
C12_ErrorsExactlyInTwoCases ==
    called = "try_parse_book_name" => C12_For(Parts(reference))

C12_WitnessFor(c) ==
    /\ c.space # 0
    /\ c.book # << >>
    /\ trim(c.book) = << >>

C12_Witness ==
    /\ called = "try_parse_book_name"
    /\ result.tag = "Err"
    /\ result.kind = "EmptyBookName"
    /\ C12_WitnessFor(Parts(reference))

C13_For(candidate) ==
    IF LowerCase(candidate) = <<112, 115, 97, 108, 109>>      \* "psalm"
    THEN result.val = <<80, 115, 97, 108, 109, 115>>
    ELSE result.val = candidate

(* C13: a successful try_parse_book_name returns 'Psalms' when the trimmed *)
(* candidate is 'Psalm' in any ASCII letter case, and the candidate itself *)
(* otherwise.                                                              *)
C13_OnlyPsalmAlias ==
    (called = "try_parse_book_name" /\ result.tag = "Ok")
    => C13_For(trim(Parts(reference).book))

C13_Witness ==
    /\ called = "try_parse_book_name"
    /\ result = Ok(PSALMS)
    /\ SubSeq(reference, 1, 6) = <<80, 83, 65, 76, 77, 32>>
    /\ rfind(reference, 32) = 6

C19_For(c) ==
    (c.colon = 0 /\ c.space = 0)
    => /\ result.tag = "Err"
       /\ result.kind = "NoColonOrSpace"

(* C19: a citation whose cleaned text has neither a colon nor a space      *)
(* makes try_count_verses_in_reference fail with the NoColonOrSpace error. *)
C19_NoColonNoSpaceIsError ==
    called = "try_count_verses_in_reference" => C19_For(Parts(reference))

C19_Witness ==
    /\ called = "try_count_verses_in_reference"
    /\ reference = <<9, 49, 8237>>         \* a bare "1" among stripped characters
    /\ result.tag = "Err"
    /\ result.kind = "NoColonOrSpace"

(* The strings got from s by inserting at most n characters of             *)
(* StrippedSample, anywhere.                                               *)
MaxInserted == 1

StrippedSample == { 0, 159, 8203, 65279, 8234, 8238 }

InsertAt(s, p, x) == SubSeq(s, 1, p) \o <<x>> \o SubSeq(s, p + 1, Len(s))

RECURSIVE Insertions(_, _)
Insertions(s, n) ==
    IF n = 0 THEN { s }
    ELSE LET fewer == Insertions(s, n - 1)
         IN fewer \cup UNION { { InsertAt(t, p, x) : p \in 0..Len(t), x \in StrippedSample }
                               : t \in fewer }

C14_For(polluted) ==
    /\ called = "try_parse_book_name"
       => \A t \in polluted : try_parse_book_name(t) = result
    /\ called = "try_count_verses_in_reference"
       => \A overflow_checks \in BOOLEAN :
              result = try_count_verses_in_reference(reference, overflow_checks)
              => \A t \in polluted :
                     try_count_verses_in_reference(t, overflow_checks) = result

(* C14: inserting control characters, U+200B, U+FEFF or U+202A..U+202E     *)
(* anywhere in a citation changes neither the result of                    *)
(* try_parse_book_name nor that of try_count_verses_in_reference.          *)
C14_StrippedCharactersTransparent ==
    C14_For(Insertions(reference, MaxInserted))

C14_Witness ==
    /\ called = "try_count_verses_in_reference"
    /\ reference = <<80, 115, 97, 108, 109, 32, 8237, 53, 49, 8236, 58, 8237, 51>>
    /\ result = Ok(I64One)

KeptPositions(s) == { i \in 1..Len(s) : Kept(s[i]) }

(* out is s without its stripped characters, the others in their order:    *)
(* the k-th kept character of s is the k-th character of out.              *)
KeepsInOrder(s, out, kept) ==
    /\ Len(out) = Cardinality(kept)
    /\ \A p \in kept : out[Cardinality({ q \in kept : q <= p })] = s[p]

C15_VerseFilter(s, out) ==
    /\ clean_reference(out) = out
    /\ \A i \in 1..Len(out) : ~Stripped(out[i])
    /\ KeepsInOrder(s, out, KeptPositions(s))

C15_BookFilter(s, out) ==
    /\ SelectSeq(out, book_filter) = out
    /\ \A i \in 1..Len(out) : ~Stripped(out[i])
    /\ KeepsInOrder(s, out, KeptPositions(s))

C15_For(polluted) ==
    /\ called = "try_count_verses_in_reference"
       => \A t \in polluted : C15_VerseFilter(t, clean_reference(t))
    /\ called = "try_parse_book_name"
       => \A t \in polluted : C15_BookFilter(t, SelectSeq(t, book_filter))

(* C15: the filter at the start of each parser, applied to its own output, *)
(* changes nothing; its output has no stripped character and is the kept   *)
(* characters of the input in their order.                                 *)
C15_FilterIdempotentOrdered ==
    C15_For(Insertions(reference, MaxInserted))

C15_Witness ==
    /\ called = "try_parse_book_name"
    /\ reference = <<80, 115, 97, 108, 109, 32, 8237, 53, 49, 8236, 58, 8237, 51>>
    /\ result = Ok(PSALMS)

HasSpace(s) == \E i \in 1..Len(s) : s[i] = 32

(* The citation is name, one space, and a locator without a space.         *)
IsCitationOf(citation, name) ==
    /\ Len(citation) > Len(name)
    /\ SubSeq(citation, 1, Len(name) + 1) = name \o <<32>>
    /\ ~HasSpace(SubSeq(citation, Len(name) + 2, Len(citation)))

(* The word Psalm, in any letter case, that s begins with.                 *)
PsalmWordOf(s) ==
    IF Len(s) >= 5 /\ LowerCase(SubSeq(s, 1, 5)) = <<112, 115, 97, 108, 109>>
    THEN { SubSeq(s, 1, 5) }
    ELSE { }

(* C18: for a citation made of a canon display name, or the word Psalm in  *)
(* any letter case, one space and a locator without a space,               *)
(* try_parse_book_name returns a name of the canon.                        *)
C18_CanonCitationGivesCanonName ==
    ( /\ called = "try_parse_book_name"
      /\ \E name \in all_books \cup PsalmWordOf(reference) :
             IsCitationOf(reference, name) )
    => /\ result.tag = "Ok"
       /\ result.val \in all_books

C18_Witness ==
    /\ called = "try_parse_book_name"
    /\ reference = <<112, 83, 97, 76, 109, 32, 51, 58, 49, 54>>     \* "pSaLm 3:16"
    /\ result = Ok(PSALMS)

(* What the entry point returns for the citation when it is called alone.  *)
Alone(entry, citation, overflow_checks) ==
    CASE entry = "try_count_verses_in_reference" ->
             try_count_verses_in_reference(citation, overflow_checks)
      [] entry = "count_verses_in_reference" ->
             count_verses_in_reference(citation, overflow_checks)
      [] entry = "try_parse_book_name" -> try_parse_book_name(citation)
      [] entry = "parse_book_name" -> parse_book_name(citation)

(* C17: in every interleaving of the steps of calls running on several     *)
(* threads, a call that has returned has returned what it returns when     *)
(* called alone.                                                           *)
C17_ConcurrentCallsDoNotInterfere ==
    \A t \in Thread :
        threads[t].pc = "done"
        => \E overflow_checks \in BOOLEAN :
               threads[t].result
                   = Alone(threads[t].entry, threads[t].reference, overflow_checks)

C17_Witness ==
    /\ threads[1].pc = "located"
    /\ threads[2].pc = "done"
    /\ threads[1].reference # threads[2].reference
    /\ threads[2].result = Value(I64One)

PassagesOf(row, cat) ==
    CASE cat = "mature" -> row.mature_passages
      [] cat = "young" -> row.young_passages
      [] cat = "unseen" -> row.unseen_passages
      [] cat = "suspended" -> row.suspended_passages

VersesOf(row, cat) ==
    CASE cat = "mature" -> row.mature_verses
      [] cat = "young" -> row.young_verses
      [] cat = "unseen" -> row.unseen_verses
      [] cat = "suspended" -> row.suspended_verses

(* The cards the query is about that fall in the category and whose        *)
(* citation has the book name.                                             *)
CardsOf(book, cat) ==
    { i \in 1..Len(cards) :
          /\ cards[i].ord = 0
          /\ in_category(cards[i], cat)
          /\ parse_book_name(cards[i].sfld) = Some(book) }

Uncountable(i) ==
    \A overflow_checks \in BOOLEAN :
        try_count_verses_in_reference(cards[i].sfld, overflow_checks).tag = "Err"

(* Each row counts the cards of its book only, so that a card without a    *)
(* book name is in no row.                                                 *)
C20_NoBookInNoRow(rows) ==
    \A book \in DOMAIN rows, cat \in Categories :
        PassagesOf(rows[book], cat) = Cardinality(CardsOf(book, cat))

(* Where all the cards of a book in a category have a verse count that     *)
(* cannot be parsed, the verses of the category are one per card.          *)
C20_UncountableIsOneVerse(rows) ==
    \A book \in DOMAIN rows, cat \in Categories :
        (\A i \in CardsOf(book, cat) : Uncountable(i))
        => VersesOf(rows[book], cat) = I64(FALSE, <<Cardinality(CardsOf(book, cat)), 0, 0>>)

C20_WhenAnswered ==
    stats.tag = "Ok" => (C20_NoBookInNoRow(stats.val) /\ C20_UncountableIsOneVerse(stats.val))

(* C20: get_all_books_stats never fails, whatever the citations of the     *)
(* cards; a card without a parsable book name is counted in no row and a   *)
(* card whose verse count cannot be parsed counts for one verse.           *)
C20_MalformedNeverFailsQuery ==
    stats.tag # "NoResult"
    => /\ stats.tag = "Ok"
       /\ C20_NoBookInNoRow(stats.val)
       /\ C20_UncountableIsOneVerse(stats.val)

(* Texts put before the last colon in place of what the citation has.      *)
OtherPrefixes ==
    { << >>,
      <<32>>,                                                        \* " "
      <<74, 117, 100, 101, 32, 49>>,                                 \* "Jude 1"
      <<71, 101, 110, 101, 115, 105, 115, 32, 49, 58, 49, 45, 50>> } \* "Genesis 1:1-2"

(* The same count, or an error of the same kind about the same verse part; *)
(* the citation quoted in the message of the error may differ.             *)
SameButQuotedCitation(r1, r2) ==
    /\ r1.tag = r2.tag
    /\ r1.tag = "Ok" => r1 = r2
    /\ r1.tag = "Err" => (r1.kind = r2.kind /\ r1.part = r2.part)

C21_AsClaimedFor(c) ==
    c.colon # 0
    => \A overflow_checks \in BOOLEAN :
           result = try_count_verses_in_reference(reference, overflow_checks)
           => \A prefix \in OtherPrefixes :
                  try_count_verses_in_reference(prefix \o <<58>> \o c.untrimmed,
                                                overflow_checks) = result

(* C21 as claimed: with a colon in the cleaned citation, replacing what    *)
(* precedes the last colon leaves the result of                            *)
(* try_count_verses_in_reference the same.                                 *)
C21_SameResultAfterLastColon ==
    called = "try_count_verses_in_reference" => C21_AsClaimedFor(Parts(reference))

C21_For(c) ==
    c.colon # 0
    => \A overflow_checks \in BOOLEAN :
           result = try_count_verses_in_reference(reference, overflow_checks)
           => \A prefix \in OtherPrefixes :
                  SameButQuotedCitation(
                      try_count_verses_in_reference(prefix \o <<58>> \o c.untrimmed,
                                                    overflow_checks),
                      result)

(* C21: with a colon in the cleaned citation, replacing what precedes the  *)
(* last colon leaves the count the same, and an error the same but for the *)
(* citation its message quotes.                                            *)
C21_SameCountOrKindAfterLastColon ==
    called = "try_count_verses_in_reference" => C21_For(Parts(reference))

C21_Witness ==
    /\ called = "try_count_verses_in_reference"
    /\ reference = <<50, 32, 84, 105, 109, 111, 116, 104, 121, 32, 51, 58, 50, 45, 49>>  \* "2 Timothy 3:2-1"
    /\ result.tag = "Err"
    /\ result.kind = "InvalidRange"

(* The locator up to its second hyphen, the second hyphen left out.        *)
UpToSecondHyphen(loc, h) == SubSeq(loc, 1, h + find(After(loc, h), 45) - 1)

(* The citation with its locator cut before the second hyphen.             *)
CutAtSecondHyphen(c) ==
    SubSeq(c.cleaned, 1, IF c.colon # 0 THEN c.colon ELSE c.space)
        \o UpToSecondHyphen(c.locator, c.hyphen)

SameKind(r1, r2) ==
    /\ r1.tag = r2.tag
    /\ r1.tag = "Ok" => r1 = r2
    /\ r1.tag = "Err" => r1.kind = r2.kind

C22_For(c) ==
    (c.located /\ c.hyphen # 0 /\ find(After(c.locator, c.hyphen), 45) # 0)
    => /\ \A overflow_checks \in BOOLEAN :
              result = try_count_verses_in_reference(reference, overflow_checks)
              => SameKind(try_count_verses_in_reference(CutAtSecondHyphen(c), overflow_checks),
                          result)
       /\ result.tag = "Ok" <=> (c.a # << >> /\ c.b # << >> /\ DecLE(c.a, c.b))
       /\ result.tag = "Ok" => result.val = I64(FALSE, InclusiveCount(c.a, c.b))

(* C22: a locator with more than one hyphen is split at its first hyphen:  *)
(* the result of try_count_verses_in_reference is that of the locator cut  *)
(* before the second hyphen, the range from the digit prefix before the    *)
(* first hyphen to the digit prefix after it.                              *)
C22_SplitAtFirstHyphen ==
    called = "try_count_verses_in_reference" => C22_For(Parts(reference))

C22_Witness ==
    /\ called = "try_count_verses_in_reference"
    /\ reference = <<74, 85, 68, 69, 32, 49, 45, 50, 45, 57>>      \* "JUDE 1-2-9"
    /\ result = Ok(I64(FALSE, <<2, 0, 0>>))

SingleChapterNames == { SINGLE_CHAPTER_BOOKS[i] : i \in 1..Len(SINGLE_CHAPTER_BOOKS) }

C23_For(c, book) ==
    ( /\ c.colon = 0
      /\ book.tag = "Ok"
      /\ book.val \in SingleChapterNames
      /\ c.tail # << >>
      /\ c.tail[1] \in 48..57 )
    => ~(result.tag = "Err" /\ result.kind = "NoColonFound")

(* C23: for a colon-less citation whose book name, as try_parse_book_name  *)
(* returns it, is a single-chapter book and whose text after the last      *)
(* space begins with a digit, try_count_verses_in_reference does not       *)
(* report NoColonFound.                                                    *)
C23_ParsersAgreeOnSingleChapter ==
    called = "try_count_verses_in_reference"
    => C23_For(Parts(reference), try_parse_book_name(reference))

HasColon(s) == \E i \in 1..Len(s) : s[i] = 58

C24_For(c) ==
    ( /\ c.colon # 0
      /\ \E overflow_checks \in BOOLEAN :
             try_count_verses_in_reference(reference, overflow_checks).tag = "Ok"
      /\ result.tag = "Ok" )
    => ~HasColon(result.val)

(* C24: for a citation that try_count_verses_in_reference counts through   *)
(* its last colon, the name try_parse_book_name returns has no colon in    *)
(* it: it holds no part of the chapter:verse locator.                      *)
C24_BookNameHasNoLocator ==
    called = "try_parse_book_name" => C24_For(Parts(reference))

HasStripped(s) == \E i \in 1..Len(s) : Stripped(s[i])

C25_For(c) ==
    \A overflow_checks \in BOOLEAN :
        result = count_verses_in_reference_old(reference, overflow_checks)
        => /\ (HasColon(reference) /\ ~HasStripped(reference))
              => result = count_verses_in_reference(reference, overflow_checks)
           /\ result # count_verses_in_reference(reference, overflow_checks)
              => (c.single \/ HasStripped(reference))

(* C25: the older and the current count_verses_in_reference return the     *)
(* same count for a citation with a colon and no stripped character; they  *)
(* differ only on colon-less citations of single-chapter books and on      *)
(* citations with stripped characters.                                     *)
C25_OldAndCurrentCounterAgree ==
    called = "count_verses_in_reference_old" => C25_For(Parts(reference))

C25_Witness ==
    /\ called = "count_verses_in_reference_old"
    /\ reference = <<80, 83, 65, 76, 77, 32, 53, 58, 48, 45, 49>>       \* "PSALM 5:0-1"
    /\ result = Value(I64(FALSE, <<2, 0, 0>>))

(* The cards the query is about whose citation has the book name.          *)
SelectedCardsOf(book) ==
    { i \in 1..Len(cards) :
          cards[i].ord = 0 /\ parse_book_name(cards[i].sfld) = Some(book) }

C26_For(rows) ==
    \A book \in DOMAIN rows :
        /\ \A i \in SelectedCardsOf(book) :
               Cardinality({ cat \in Categories : in_category(cards[i], cat) }) = 1
        /\ total_passages(rows[book]) = Cardinality(SelectedCardsOf(book))

(* C26: every selected card is in exactly one of the four categories, so   *)
(* that the total_passages of a book is the number of its selected cards.  *)
C26_EveryCardInOneCategory ==
    stats.tag = "Ok" => C26_For(stats.val)

(* The call of a dated statistics function that has returned.              *)
ReturnedFrom(entries) == days # NoResult /\ days.entry \in entries

StartOf(e) == IF "date" \in DOMAIN e THEN e.date ELSE e.week_start

RECURSIVE NetProgress(_, _)
(* The sum of matured - lost over the first i entries.                     *)
NetProgress(entries, i) ==
    IF i = 0 THEN 0
    ELSE NetProgress(entries, i - 1)
             + entries[i].matured_passages - entries[i].lost_passages

C27_For(entries) ==
    /\ \A i, j \in DOMAIN entries : i < j => StartOf(entries[i]) <= StartOf(entries[j])
    /\ \A i \in DOMAIN entries :
           entries[i].cumulative_passages = NetProgress(entries, i)

(* C27: the entries of the last 30 days and of the last 12 weeks are in    *)
(* order, oldest first, and the cumulative_passages of an entry is the sum *)
(* of matured - lost over it and the entries before it.                    *)
C27_OrderedWithRunningSum ==
    ReturnedFrom({"get_last_30_days_stats", "get_last_12_weeks_stats"})
        => C27_For(days.val)

(* The date changed during the 30 iterations, a passage was lost on one    *)
(* day and one matured on a later day.                                     *)
C27_Witness ==
    /\ ReturnedFrom({"get_last_30_days_stats"})
    /\ date_of(days.clocks[1]) # date_of(days.clocks[DAYS])
    /\ \E i, j \in DOMAIN days.val :
           /\ i < j
           /\ days.val[i].lost_passages = 1
           /\ days.val[i].cumulative_passages = -1
           /\ days.val[j].matured_passages = 1
           /\ days.val[j].cumulative_passages = 0

(* The period and the map that the reading statistics handed to            *)
(* build_results, from the readings of the clock of the call.              *)
PeriodOfCall == last_30_days(days.clocks)

ResultsOfCall(period) == reading_results(page_stat_data, period.start_ms, period.end_ms)

C28_For(self, results, out) ==
    /\ Len(out) = Len(self.dates)
    /\ \A i \in DOMAIN out :
           /\ out[i].date = self.dates[i]
           /\ out[i].minutes
                  = as_minutes(IF self.dates[i] \in DOMAIN results
                               THEN results[self.dates[i]]
                               ELSE i64_default,
                               SecondsPerMinute)

(* C28: build_results returns one result for each date of the period, in   *)
(* the order of the period, with the value the map has for the date, or    *)
(* the default if the map has none.                                        *)
C28_OneResultPerDate ==
    ReturnedFrom({"reading_get_last_30_days_stats"})
        => C28_For(PeriodOfCall, ResultsOfCall(PeriodOfCall), days.val)

(* The two lists that get_faith_daily_stats zipped, from the readings of   *)
(* the clock of the call.                                                  *)
AnkiStatsOfCall == get_last_30_days_stats(revlog, anki_clocks(days.clocks))

ReadingStatsOfCall ==
    reading_get_last_30_days_stats(page_stat_data, reading_clocks(days.clocks))

C29_For(merged_days, anki_stats, reading_stats) ==
    /\ Len(merged_days) = DAYS
    /\ \A i \in DOMAIN merged_days : anki_stats[i].date = reading_stats[i].date

(* C29: whenever get_faith_daily_stats has returned, whatever the instants *)
(* at which its calls read the clock, the merged list has 30 entries and   *)
(* the two entries zipped at an index carry the same date.                 *)
C29_ZippedEntriesSameDate ==
    ReturnedFrom({"get_faith_daily_stats"})
        => C29_For(days.val, AnkiStatsOfCall, ReadingStatsOfCall)

C30_For(clock, b) ==
    /\ b[1] <= clock
    /\ clock < b[2]
    /\ b[3] = timestamp_ms_to_date_string(clock)

(* C30: at every hour the instant of the reading lies in the window of     *)
(* day offset 0, whose start is what get_today_start_ms returns, and the   *)
(* date of the window is the logical date of the instant.                  *)
C30_NowInsideToday ==
    /\ (ReturnedFrom({"get_day_boundaries"}) /\ days.day_offset = 0)
           => C30_For(days.clocks[1], days.val)
    /\ ReturnedFrom({"get_today_start_ms"}) => days.val <= days.clocks[1]

====
